---- MODULE Spec2Model ----
(***************************************************************************)
(* Model of the digits clue engine: the fingerprint encoders (clue maps),  *)
(* the maps database builder, the clue generator and the solver.           *)
(***************************************************************************)
EXTENDS Integers, Sequences, FiniteSets, TLC

VARIABLES
    maps_db,    \* the pickled map files on disk: difficulty -> key -> table
    map_files,  \* Digits.map_files: the tables loaded at start-up
    build_log,  \* the clue types the builder run of this process skipped
    pc,         \* position of the process: offline, failed, idle, generated, done
    clue_gen,   \* the ClueGenerator object of the current game (or NoGen)
    solver,     \* the Solver object of the current game (or NoSolver)
    builder,    \* the MapsDatabaseBuilder object of the last run (or NoBuilder)
    runs,       \* the Solver runs of concurrent requests, by request
    enc,        \* a clue map object built for a digit list (or NoEnc)
    session,    \* the Flask session of the request being handled
    cookie,     \* the session as the browser holds it between requests
    attempts    \* the passes of the handler's loop over solver_attempts

vars == <<maps_db, map_files, build_log, pc, clue_gen, solver, builder, runs, enc,
          session, cookie, attempts>>

-----------------------------------------------------------------------------
(* Bounds of the model *)

\* largest number the database builder is run for (its `max` argument)
IndexMax == 112

\* answers handed to the clue generator are 1..MaxAnswer
MaxAnswer == 118

\* the builder is run with min = 1 and with min = IndexMin
IndexMin == 100

\* a wider index is built up to WideMax; games on it have the answers
\* WideFirst..WideMax
WideMax == 205
WideFirst == 180

\* clue maps are built for every digit list of 1..MaxLen digits
MaxLen == 3

\* the number of requests served at the same time
NumRuns == 2

\* the answers and difficulties of the requests served at the same time
RunAnswers == {104, 110}
RunDifficulties == {"easy", "hard"}

-----------------------------------------------------------------------------
(* Configuration: constants.py *)

Difficulties == {"easy", "medium", "hard"}

\* a limit that is absent from the configuration (`.get("length")` is None);
\* every use of such a limit tests its truthiness only
None == 0

\* CLUES of digits_app/src/constants.py, read by the builder and the solver:
\* one entry per kwargs dict, in iteration order
CLUES ==
    << [clue |-> "multiples", key |-> "multiples", attribute |-> "",
        limits |-> [easy |-> 4, medium |-> 4, hard |-> 4], has_limits |-> TRUE],
       [clue |-> "total_sum", key |-> "total_sum", attribute |-> "",
        limits |-> [easy |-> None, medium |-> None, hard |-> None], has_limits |-> FALSE],
       [clue |-> "special_properties", key |-> "prime", attribute |-> "prime",
        limits |-> [easy |-> 1, medium |-> 2, hard |-> None], has_limits |-> TRUE],
       [clue |-> "special_properties", key |-> "perfect", attribute |-> "perfect",
        limits |-> [easy |-> 1, medium |-> 2, hard |-> None], has_limits |-> TRUE],
       [clue |-> "special_properties", key |-> "fibonacci", attribute |-> "fibonacci",
        limits |-> [easy |-> 1, medium |-> 2, hard |-> None], has_limits |-> TRUE],
       [clue |-> "even", key |-> "even", attribute |-> "",
        limits |-> [easy |-> None, medium |-> None, hard |-> None], has_limits |-> FALSE],
       [clue |-> "order", key |-> "order", attribute |-> "",
        limits |-> [easy |-> None, medium |-> None, hard |-> None], has_limits |-> FALSE],
       [clue |-> "partials", key |-> "product", attribute |-> "product",
        limits |-> [easy |-> None, medium |-> None, hard |-> None], has_limits |-> FALSE],
       [clue |-> "partials", key |-> "sum", attribute |-> "sum",
        limits |-> [easy |-> None, medium |-> None, hard |-> None], has_limits |-> FALSE] >>

\* CLUES of src/constants.py, the list-shaped configuration the clue
\* generator iterates (`for kwargs in _kwargs`); it differs from CLUES in
\* the easy limit of multiples
GEN_CLUES ==
    [i \in DOMAIN CLUES |->
        IF CLUES[i].key = "multiples"
        THEN [CLUES[i] EXCEPT !.limits = [easy |-> 9, medium |-> 4, hard |-> 4]]
        ELSE CLUES[i]]

\* a configuration that names a clue type no method or class handles
UNHANDLED_CLUES ==
    Append(CLUES, [clue |-> "palindrome", key |-> "palindrome", attribute |-> "",
                   limits |-> [easy |-> None, medium |-> None, hard |-> None],
                   has_limits |-> FALSE])

\* the configurations a builder run may be given
Configs == {CLUES, UNHANDLED_CLUES}

ClueKeys(clues) == {clues[i].key : i \in DOMAIN clues}

Families == ClueKeys(CLUES)

CLUE_TYPE_MAP ==
    [k \in {"prime", "perfect", "fibonacci", "product", "sum"} |->
        IF k \in {"product", "sum"} THEN "partials" ELSE "special_properties"]

\* the clue types that have a negative-constraint template
NEGATIVE_CONSTRAINT_CLUES ==
    {"multiples", "prime", "fibonacci", "perfect", "product", "sum"}

\* the templates of NEGATIVE_CONSTRAINT_CLUES that contain {limit_msg}
TemplatesWithLimitMsg == {"prime", "fibonacci", "perfect"}

-----------------------------------------------------------------------------
(* utility_methods.py *)

RECURSIVE num_to_digits(_)
num_to_digits(num) ==
    IF num < 10 THEN <<num>>
    ELSE Append(num_to_digits(num \div 10), num % 10)

RECURSIVE digits_to_num(_)
digits_to_num(digits) ==
    IF Len(digits) = 0 THEN 0
    ELSE 10 * digits_to_num(SubSeq(digits, 1, Len(digits) - 1)) + digits[Len(digits)]

\* len(str(n))
StrLen(n) == Len(num_to_digits(n))

RECURSIVE Pow10(_)
Pow10(k) == IF k = 0 THEN 1 ELSE 10 * Pow10(k - 1)

\* int(str(a) + str(b))
ConcatInts(a, b) == a * Pow10(StrLen(b)) + b

\* int(math.sqrt(val)) by bisection on lo*lo <= val < hi*hi
RECURSIVE IsqrtBetween(_, _, _)
IsqrtBetween(val, lo, hi) ==
    IF hi - lo <= 1 THEN lo
    ELSE LET mid == (lo + hi) \div 2
         IN IF mid * mid <= val THEN IsqrtBetween(val, mid, hi)
            ELSE IsqrtBetween(val, lo, mid)

\* the first power of two whose square exceeds val
RECURSIVE RootAbove(_, _)
RootAbove(val, hi) == IF hi * hi > val THEN hi ELSE RootAbove(val, 2 * hi)

Isqrt(val) == IsqrtBetween(val, 0, RootAbove(val, 1))

_is_perfect_square(val) == LET s == Isqrt(val) IN s * s = val

\* the second test is evaluated only when the first fails, and then num >= 1
is_fibonacci(num) ==
    \/ _is_perfect_square(5 * num * num + 4)
    \/ _is_perfect_square(5 * num * num - 4)

check_sum(x, y, target) == x + y = target

check_product(x, y, target) == x * y = target

\* sympy.isprime
isprime(n) == n >= 2 /\ \A p \in 2..(n - 1) : p * p > n \/ n % p # 0

\* sympy.is_perfect: n equals the sum of its proper divisors
is_perfect(n) ==
    /\ n >= 2
    /\ LET Divs == {p \in 1..(n \div 2) : n % p = 0}
           RECURSIVE SumSet(_)
           SumSet(S) == IF S = {} THEN 0
                        ELSE LET x == CHOOSE x \in S : TRUE IN x + SumSet(S \ {x})
       IN SumSet(Divs) = n

prop_func(attribute, cand) ==
    CASE attribute = "prime" -> isprime(cand)
      [] attribute = "perfect" -> is_perfect(cand)
      [] attribute = "fibonacci" -> is_fibonacci(cand)

partial_func(attribute, x, y, target) ==
    CASE attribute = "product" -> check_product(x, y, target)
      [] attribute = "sum" -> check_sum(x, y, target)

\* tuple(num_map): the key of a map in a table is the map itself
default_map_to_key(num_map) == num_map

\* str.title of each word of a snake_case name, joined
snake_to_camelcase(name) ==
    CASE name = "multiples" -> "Multiples"
      [] name = "total_sum" -> "TotalSum"
      [] name = "special_properties" -> "SpecialProperties"
      [] name = "even" -> "Even"
      [] name = "order" -> "Order"
      [] name = "partials" -> "Partials"
      [] name = "prime" -> "Prime"
      [] name = "perfect" -> "Perfect"
      [] name = "fibonacci" -> "Fibonacci"
      [] name = "product" -> "Product"
      [] name = "sum" -> "Sum"
      [] name = "palindrome" -> "Palindrome"

-----------------------------------------------------------------------------
(* Small list helpers *)

Range(s) == {s[i] : i \in DOMAIN s}

\* a list or dict as a value held in memory: the same function f, with
\* every element computed once
Stored(f) == f @@ <<>>

RECURSIVE SumSeq(_)
SumSeq(s) == IF Len(s) = 0 THEN 0 ELSE Head(s) + SumSeq(Tail(s))

RECURSIVE ConcatAll(_)
ConcatAll(ss) == IF Len(ss) = 0 THEN <<>> ELSE Head(ss) \o ConcatAll(Tail(ss))

Count(s, v) == Cardinality({i \in DOMAIN s : s[i] = v})

\* list.sort() on a list of integers
RECURSIVE SortInts(_)
SortInts(s) ==
    IF Len(s) <= 1 THEN s
    ELSE LET rest == SortInts(Tail(s))
             x == Head(s)
             below == SelectSeq(rest, LAMBDA y : y < x)
             above == SelectSeq(rest, LAMBDA y : y >= x)
         IN below \o <<x>> \o above

PairLess(p, q) == p[1] < q[1] \/ (p[1] = q[1] /\ p[2] < q[2])

\* sorted() on a list of (j, k) pairs
RECURSIVE SortPairs(_)
SortPairs(s) ==
    IF Len(s) <= 1 THEN s
    ELSE LET rest == SortPairs(Tail(s))
             x == Head(s)
             below == SelectSeq(rest, LAMBDA y : PairLess(y, x))
             above == SelectSeq(rest, LAMBDA y : ~PairLess(y, x))
         IN below \o <<x>> \o above

-----------------------------------------------------------------------------
(* clues/clue_map.py: the numeric map (fingerprint) of each clue type.     *)
(* Positions are 0-indexed as in the code: digit i is digits[i + 1].       *)

Idx(digits) == 0..(Len(digits) - 1)

\* OrderClueMap.build_clue as it would be with the strict comparisons
\* cur < next and cur > next
OrderClueMap_strict(digits) ==
    LET ascending == \A i \in 1..(Len(digits) - 1) : digits[i] < digits[i + 1]
        descending == \A i \in 1..(Len(digits) - 1) : digits[i] > digits[i + 1]
    IN [ascending |-> ascending, descending |-> descending,
        num_map |-> <<IF ascending THEN 1 ELSE 0, IF descending THEN 1 ELSE 0>>]

\* OrderClueMap.build_clue
OrderClueMap(digits) ==
    LET ascending == \A i \in 1..(Len(digits) - 1) : digits[i] <= digits[i + 1]
        descending == \A i \in 1..(Len(digits) - 1) : digits[i] >= digits[i + 1]
    IN [ascending |-> ascending, descending |-> descending,
        num_map |-> <<IF ascending THEN 1 ELSE 0, IF descending THEN 1 ELSE 0>>]

\* TotalSumClueMap.build_clue as it would be with `if val >= self.sum - val`
TotalSumClueMap_at_least(digits) ==
    LET sum == SumSeq(digits)
        cmp(val) == IF val >= sum - val THEN 1 ELSE -1
    IN [comparisons |->
            Stored([i \in {i \in Idx(digits) : cmp(digits[i + 1]) >= 0} |-> "greater than"]),
        num_map |-> Stored([i \in DOMAIN digits |-> cmp(digits[i])])]

\* TotalSumClueMap.build_clue as it would be without the branch
\* `elif val == self.sum - val`
TotalSumClueMap_no_equal(digits) ==
    LET sum == SumSeq(digits)
        cmp(val) == IF val > sum - val THEN 1 ELSE -1
    IN [comparisons |->
            Stored([i \in {i \in Idx(digits) : cmp(digits[i + 1]) >= 0} |-> "greater than"]),
        num_map |-> Stored([i \in DOMAIN digits |-> cmp(digits[i])])]

\* TotalSumClueMap.build_clue: comparisons is keyed by the positions that
\* are greater than or equal to the sum of the other digits
TotalSumClueMap(digits) ==
    LET sum == SumSeq(digits)
        cmp(val) == IF val > sum - val THEN 1
                    ELSE IF val = sum - val THEN 0 ELSE -1
    IN [comparisons |->
            Stored([i \in {i \in Idx(digits) : cmp(digits[i + 1]) >= 0} |->
                IF cmp(digits[i + 1]) = 1 THEN "greater than" ELSE "equal to"]),
        num_map |-> Stored([i \in DOMAIN digits |-> cmp(digits[i])])]

\* EvenClueMap.build_clue
EvenClueMap(digits) ==
    LET num_map == Stored([i \in DOMAIN digits |-> IF digits[i] % 2 = 0 THEN 1 ELSE 0])
    IN [num_even |-> Count(num_map, 1), num_map |-> num_map]

\* one cell of d[:, np.newaxis] / d: a float, kept as an exact fraction
FloatDivide(x, y) ==
    IF y = 0
    THEN [kind |-> IF x = 0 THEN "nan" ELSE "inf", n |-> 0, d |-> 1]
    ELSE [kind |-> "num", n |-> x, d |-> y]

FloatOf(n) == [kind |-> "num", n |-> n, d |-> 1]

\* cell != int(cell): nan and inf differ from every integer
NotAnInteger(c) == c.kind # "num" \/ c.n % c.d # 0

\* MultiplesClueMap.build_clue as it would be with the division d / d[:, np.newaxis],
\* the column's digit over the row's
MultiplesClueMap_transposed(digits, limit) ==
    [i \in 1..Len(digits) |-> [j \in 1..Len(digits) |->
        IF i # j /\ digits[i] = 0 /\ digits[j] = 0 THEN -1
        ELSE IF i # j /\ digits[i] # 0 /\ digits[j] % digits[i] = 0
                /\ digits[j] \div digits[i] <= limit
        THEN digits[j] \div digits[i] ELSE 0]]

\* MultiplesClueMap.build_clue as it would be without the edge case of
\* several zeros
MultiplesClueMap_no_sentinel(digits, limit) ==
    [i \in 1..Len(digits) |-> [j \in 1..Len(digits) |->
        IF i # j /\ digits[j] # 0 /\ digits[i] % digits[j] = 0
           /\ digits[i] \div digits[j] <= limit
        THEN digits[i] \div digits[j] ELSE 0]]

\* MultiplesClueMap.build_clue: the cell (i, j) of the map after each
\* statement of the code, one statement per LET
MultiplesClueMap(digits, limit) ==
    LET N == Len(digits)
        zeros == {i \in 1..N : digits[i] = 0}
        cell(i, j) ==
            LET divided == FloatDivide(digits[i], digits[j])
                marked == IF Cardinality(zeros) > 1 /\ i \in zeros /\ j \in zeros /\ i # j
                          THEN FloatOf(-1) ELSE divided
                whole == IF NotAnInteger(marked) THEN FloatOf(0) ELSE marked
                limited == IF whole.n > limit * whole.d THEN FloatOf(0) ELSE whole
                identity == IF i = j THEN 1 ELSE 0
                no_self == IF limited.n = identity * limited.d THEN FloatOf(0) ELSE limited
            IN no_self.n \div no_self.d
    IN Stored([i \in 1..N |-> Stored([j \in 1..N |-> cell(i, j)])])

\* int("".join(str(dig) for dig in digits[i : j + 1])), i and j 0-indexed
JoinDigits(digits, i, j) == digits_to_num(SubSeq(digits, i + 1, j + 1))

\* SpecialPropertiesClueMap.build_clue as it would be with the inner loop
\* `for j in range(i, i + 1)`: the single digits only
SpecialPropertiesClueMap_singles(digits, attribute, limit) ==
    SortInts(ConcatAll([i \in 1..Len(digits) |->
        IF prop_func(attribute, digits[i]) THEN <<i>> ELSE <<>>]))

\* SpecialPropertiesClueMap.build_clue as it would be without map.sort():
\* the codes in the order the loops append them
SpecialPropertiesClueMap_unsorted(digits, attribute, limit) ==
    LET N == Len(digits)
        self_limit == IF limit # None THEN limit ELSE N
        upto(i) == IF N < i + self_limit THEN N ELSE i + self_limit
        row(i) == [x \in 1..(IF upto(i) > i THEN upto(i) - i ELSE 0) |->
                    LET j == i + x - 1
                    IN IF prop_func(attribute, JoinDigits(digits, i, j))
                       THEN <<IF i # j THEN ConcatInts(i + 1, j + 1) ELSE i + 1>>
                       ELSE <<>>]
    IN ConcatAll([i \in 1..N |-> ConcatAll(row(i - 1))])

\* SpecialPropertiesClueMap.build_clue
SpecialPropertiesClueMap(digits, attribute, limit) ==
    LET N == Len(digits)
        self_limit == IF limit # None THEN limit ELSE N
        upto(i) == IF N < i + self_limit THEN N ELSE i + self_limit
        row(i) == [x \in 1..(IF upto(i) > i THEN upto(i) - i ELSE 0) |->
                    LET j == i + x - 1
                    IN IF prop_func(attribute, JoinDigits(digits, i, j))
                       THEN <<IF i # j THEN ConcatInts(i + 1, j + 1) ELSE i + 1>>
                       ELSE <<>>]
    IN SortInts(ConcatAll([i \in 1..N |-> ConcatAll(row(i - 1))]))

\* itertools.combinations(range(n), 2), in its order
Combinations2(n) ==
    ConcatAll([j \in 1..n |-> [x \in 1..(n - j) |-> <<j - 1, j - 1 + x>>]])

\* PartialsClueMap.build_clue as it would be without the test
\* `j != i and k != i`
PartialsClueMap_with_self(digits, attribute) ==
    LET N == Len(digits)
        pairs == Combinations2(N)
    IN Stored([i \in 1..N |->
          SortPairs(SelectSeq(pairs, LAMBDA p :
              partial_func(attribute, digits[p[1] + 1], digits[p[2] + 1], digits[i])))])

\* PartialsClueMap.build_clue
PartialsClueMap(digits, attribute) ==
    LET N == Len(digits)
        pairs == Combinations2(N)
    IN Stored([i \in 1..N |->
          SortPairs(SelectSeq(pairs, LAMBDA p :
              /\ p[1] # i - 1
              /\ p[2] # i - 1
              /\ partial_func(attribute, digits[p[1] + 1], digits[p[2] + 1], digits[i])))])

-----------------------------------------------------------------------------
(* clues/clue_generator.py *)

\* a clue of a clue list: a Clue object, or a string appended to the list
Clue(type, args, word) == [type |-> type, args |-> args, word |-> word, limit_msg |-> ""]

\* str(clue_map): the class name, prefixed by the capitalised attribute
MapName(attribute, clue) ==
    <<IF attribute = "" THEN "" ELSE snake_to_camelcase(attribute),
      snake_to_camelcase(clue), "ClueMap">>

\* limit = None if not limits else limits[difficulty].get("length")
LimitOf(kwargs, difficulty) ==
    IF kwargs.has_limits THEN kwargs.limits[difficulty] ELSE None

\* ClueGenerator.generate_multiples_clues
generate_multiples_clues(digits, limit) ==
    LET map == MultiplesClueMap(digits, limit)
        N == Len(digits)
        multiples_exist == \E i \in 1..N : \E j \in 1..N : map[i][j] # 0
        found == ConcatAll([i \in 1..N |-> ConcatAll([j \in 1..N |->
                    IF (0 < map[i][j] /\ map[i][j] <= limit) \/ map[i][j] = -1
                    THEN <<Clue("multiples", <<j - 1, i - 1, map[i][j]>>, "")>>
                    ELSE <<>>])])
    IN [clues |-> IF multiples_exist THEN found
                  ELSE Append(found, Clue("no_multiples", <<>>, "")),
        num_map |-> map]

\* ClueGenerator.generate_total_sum_clues
generate_total_sum_clues(digits) ==
    LET scm == TotalSumClueMap(digits)
    IN [clues |-> ConcatAll([i \in 1..Len(digits) |->
                    IF (i - 1) \in DOMAIN scm.comparisons
                    THEN <<Clue("total_sum", <<i - 1>>, scm.comparisons[i - 1])>>
                    ELSE <<>>]),
        num_map |-> scm.num_map]

\* ClueGenerator.generate_even_clues
generate_even_clues(digits) ==
    LET eocm == EvenClueMap(digits)
    IN [clues |-> <<Clue("even", <<eocm.num_even>>, "")>>, num_map |-> eocm.num_map]

\* ClueGenerator.generate_order_clues
generate_order_clues(digits) ==
    LET ocm == OrderClueMap(digits)
    IN [clues |-> <<Clue("order", ocm.num_map, "")>>, num_map |-> ocm.num_map]

\* ClueGenerator.generate_partials_clues
generate_partials_clues(digits, attribute) ==
    LET map == PartialsClueMap(digits, attribute)
        any == \E i \in DOMAIN map : Len(map[i]) > 0
    IN [clues |->
            IF any
            THEN ConcatAll([i \in DOMAIN map |-> [c \in DOMAIN map[i] |->
                    Clue(attribute, <<i - 1, map[i][c][1], map[i][c][2]>>, "")]])
            ELSE <<Clue(attribute, <<>>, "none")>>,
        num_map |-> map]

\* ClueGenerator.generate_special_properties_clues
generate_special_properties_clues(digits, attribute, limit) ==
    LET map == SpecialPropertiesClueMap(digits, attribute, limit)
    IN [clues |->
            IF Len(map) = 0 THEN <<Clue(attribute, <<>>, "none")>>
            ELSE [c \in DOMAIN map |-> Clue(attribute, <<map[c]>>, "")],
        num_map |-> map]

\* getattr(self, f"generate_{clue}_clues")(**kwargs)
generate_for(kwargs, digits, difficulty) ==
    CASE kwargs.clue = "multiples" ->
            generate_multiples_clues(digits, LimitOf(kwargs, difficulty))
      [] kwargs.clue = "total_sum" -> generate_total_sum_clues(digits)
      [] kwargs.clue = "even" -> generate_even_clues(digits)
      [] kwargs.clue = "order" -> generate_order_clues(digits)
      [] kwargs.clue = "partials" -> generate_partials_clues(digits, kwargs.attribute)
      [] kwargs.clue = "special_properties" ->
            generate_special_properties_clues(digits, kwargs.attribute,
                                              LimitOf(kwargs, difficulty))

\* ClueGenerator.generate_clues: all clues by key, all maps by map name
generate_clues(digits, difficulty) ==
    LET made == Stored([i \in DOMAIN GEN_CLUES |->
                           generate_for(GEN_CLUES[i], digits, difficulty)])
        at(key) == CHOOSE i \in DOMAIN GEN_CLUES : GEN_CLUES[i].key = key
        names == {MapName(GEN_CLUES[i].attribute, GEN_CLUES[i].clue) : i \in DOMAIN GEN_CLUES}
        named(name) == CHOOSE i \in DOMAIN GEN_CLUES :
                          MapName(GEN_CLUES[i].attribute, GEN_CLUES[i].clue) = name
    IN [clues |-> [key \in ClueKeys(GEN_CLUES) |-> made[at(key)].clues],
        num_maps |-> [name \in names |-> made[named(name)].num_map]]

\* ClueGenerator.__init__
NewClueGenerator(number, difficulty) ==
    LET digits == num_to_digits(number)
        made == generate_clues(digits, difficulty)
    IN [target |-> number, difficulty |-> difficulty, digits |-> digits,
        clues |-> made.clues, num_maps |-> made.num_maps]

-----------------------------------------------------------------------------
(* database_builder.py *)

\* the store_<clue>_maps methods of MapsDatabaseBuilder
StoreMethods == {"multiples", "total_sum", "even", "order", "special_properties", "partials"}

\* the <Clue>ClueMap classes of clue_map.py (MapsDatabaseBuilder.get_class)
ClueMapClasses == {"Multiples", "TotalSum", "Even", "Order", "SpecialProperties", "Partials"}

\* map_class(digits, **kwargs).num_map
NumMapOf(clue, attribute, digits, limit) ==
    CASE clue = "multiples" -> MultiplesClueMap(digits, limit)
      [] clue = "total_sum" -> TotalSumClueMap(digits).num_map
      [] clue = "even" -> EvenClueMap(digits).num_map
      [] clue = "order" -> OrderClueMap(digits).num_map
      [] clue = "partials" -> PartialsClueMap(digits, attribute)
      [] clue = "special_properties" -> SpecialPropertiesClueMap(digits, attribute, limit)

\* two dicts of buckets joined: the numbers of `later` are appended to the
\* buckets of `maps` (maps.setdefault(num_map, []); maps[num_map].append(val))
AppendBuckets(maps, later) ==
    Stored([num_map \in DOMAIN maps \cup DOMAIN later |->
        (IF num_map \in DOMAIN maps THEN maps[num_map] ELSE <<>>)
        \o (IF num_map \in DOMAIN later THEN later[num_map] ELSE <<>>)])

\* the loop `for val in range(lo, hi + 1)` of store_simple_maps and
\* store_variety_maps: every val is appended to the bucket of its map, in
\* ascending order. The range is run as two halves, the second appended to
\* the first, to keep the evaluation shallow.
RECURSIVE StoreLoop(_, _, _, _, _)
StoreLoop(lo, hi, clue, attribute, limit) ==
    IF lo > hi THEN <<>>
    ELSE IF lo = hi
    THEN (default_map_to_key(NumMapOf(clue, attribute, num_to_digits(lo), limit))
            :> <<lo>>)
    ELSE LET mid == (lo + hi) \div 2
         IN AppendBuckets(StoreLoop(lo, mid, clue, attribute, limit),
                          StoreLoop(mid + 1, hi, clue, attribute, limit))

\* store_simple_maps as it would be with `for val in range(1, max)`
store_simple_maps_short(max, clue, limit) == StoreLoop(1, max - 1, clue, "", limit)

\* MapsDatabaseBuilder.store_simple_maps: the pickled dict
store_simple_maps(max, clue, limit) == StoreLoop(1, max, clue, "", limit)

\* store_variety_maps as it would be with `for val in range(1, max)`
store_variety_maps_short(max, clue, attribute, limit) ==
    (attribute :> StoreLoop(1, max - 1, clue, attribute, limit))

\* MapsDatabaseBuilder.store_variety_maps: the pickled dict, keyed by attribute
store_variety_maps(max, clue, attribute, limit) ==
    (attribute :> StoreLoop(1, max, clue, attribute, limit))

\* the store_<clue>_maps method a configuration entry dispatches to
store_maps(max, kwargs, difficulty) ==
    CASE kwargs.clue = "multiples" ->
            store_simple_maps(max, kwargs.clue, LimitOf(kwargs, difficulty))
      [] kwargs.clue \in {"total_sum", "even", "order"} ->
            store_simple_maps(max, kwargs.clue, None)
      [] kwargs.clue = "special_properties" ->
            store_variety_maps(max, kwargs.clue, kwargs.attribute, kwargs.limits[difficulty])
      [] kwargs.clue = "partials" ->
            store_variety_maps(max, kwargs.clue, kwargs.attribute, None)

\* getattr(self, func_name) raises AttributeError, or get_class returns None
Unhandled(kwargs) ==
    \/ kwargs.clue \notin StoreMethods
    \/ snake_to_camelcase(kwargs.clue) \notin ClueMapClasses

\* MapsDatabaseBuilder.store_all_maps: the files written, by key, and the
\* keys skipped with "Continuing with other clues."
store_all_maps(clues, max, difficulty) ==
    LET handled == {i \in DOMAIN clues : ~Unhandled(clues[i])}
        at(key) == CHOOSE i \in handled : clues[i].key = key
    IN [files |-> [key \in {clues[i].key : i \in handled} |->
                      store_maps(max, clues[at(key)], difficulty)],
        skipped |-> {clues[i].key : i \in DOMAIN clues \ handled}]

\* load_map_file raises FileNotFoundError for a key without a file
CanLoad(db) == \A d \in Difficulties : ClueKeys(CLUES) \subseteq DOMAIN db[d]

\* Digits.load_map_files: the tables of the keys of CLUES, per difficulty
load_map_files(db) ==
    [d \in Difficulties |-> [key \in ClueKeys(CLUES) |-> db[d][key]]]

-----------------------------------------------------------------------------
(* solver.py *)

\* an attribute that is None, or holds a value
NoneValue == <<>>
Some(x) == <<x>>

\* the get_<clue>_matches methods of Solver
GetMethods == {"multiples", "total_sum", "even", "order", "special_properties", "partials"}

\* Solver.format_clue_type: rename, upper(), "_" -> " "
format_clue_type(clue_type) ==
    CASE clue_type = "multiples" -> "DIVIDED"
      [] clue_type = "total_sum" -> "TOTAL SUM"
      [] clue_type = "prime" -> "PRIME"
      [] clue_type = "perfect" -> "PERFECT"
      [] clue_type = "fibonacci" -> "FIBONACCI"
      [] clue_type = "even" -> "EVEN"
      [] clue_type = "order" -> "ORDER"
      [] clue_type = "product" -> "PRODUCT"
      [] clue_type = "sum" -> "SUM"

\* f"1 or {difficulty_limit} digit "
OneOrNDigit(n) ==
    CASE n = 2 -> "1 or 2 digit "
      [] n = 3 -> "1 or 3 digit "
      [] n = 4 -> "1 or 4 digit "
      [] n = 5 -> "1 or 5 digit "
      [] n = 6 -> "1 or 6 digit "
      [] n = 7 -> "1 or 7 digit "
      [] n = 8 -> "1 or 8 digit "
      [] n = 9 -> "1 or 9 digit "

\* Solver._format_limit_msg as it would be with limits["easy"] in place of
\* limits[self.difficulty]
_format_limit_msg_easy(clue_type_config, difficulty) ==
    IF clue_type_config.has_limits
    THEN LET difficulty_limit == clue_type_config.limits["easy"]
         IN IF difficulty_limit = None THEN ""
            ELSE IF difficulty_limit > 1 THEN OneOrNDigit(difficulty_limit)
            ELSE "1-digit "
    ELSE ""

\* Solver._format_limit_msg
_format_limit_msg(clue_type_config, difficulty) ==
    IF clue_type_config.has_limits
    THEN LET difficulty_limit == clue_type_config.limits[difficulty]
         IN IF difficulty_limit = None THEN ""
            ELSE IF difficulty_limit > 1 THEN OneOrNDigit(difficulty_limit)
            ELSE "1-digit "
    ELSE ""

\* the kwargs dict of a key is empty (falsy)
EmptyConfig(kwargs) == kwargs.attribute = "" /\ ~kwargs.has_limits

\* CLUES[parent_clue_type][clue_type] or CLUES[clue_type][clue_type]
ConfigOf(clue_type) == CLUES[CHOOSE i \in DOMAIN CLUES : CLUES[i].key = clue_type]

\* the string add_negative_constraint_clues appends for a clue type
NegativeClue(clue_type, difficulty) ==
    LET clue_type_config == ConfigOf(clue_type)
        limit_msg == IF EmptyConfig(clue_type_config) THEN "None"
                     ELSE _format_limit_msg(clue_type_config, difficulty)
    IN [type |-> "negative", args |-> <<>>, word |-> format_clue_type(clue_type),
        limit_msg |-> IF clue_type \in TemplatesWithLimitMsg THEN limit_msg ELSE ""]

\* add_negative_constraint_clues as it would be without the membership test
\* on NEGATIVE_CONSTRAINT_CLUES
add_negative_constraint_clues_unguarded(final_clues, difficulty) ==
    [clue_type \in DOMAIN final_clues |->
        Append(final_clues[clue_type], NegativeClue(clue_type, difficulty))]

\* Solver.add_negative_constraint_clues: the lists of final_clues afterwards
add_negative_constraint_clues(final_clues, difficulty) ==
    [clue_type \in DOMAIN final_clues |->
        IF clue_type \in NEGATIVE_CONSTRAINT_CLUES
        THEN Append(final_clues[clue_type], NegativeClue(clue_type, difficulty))
        ELSE final_clues[clue_type]]

\* Solver.update_final_clue_keys
update_final_clue_keys(final_clues) ==
    [new_key \in {format_clue_type(k) : k \in DOMAIN final_clues} |->
        final_clues[CHOOSE k \in DOMAIN final_clues : format_clue_type(k) = new_key]]

\* Solver.get_simple_matches: all_maps.get(num_map, [])
get_simple_matches(all_maps, num_map) ==
    LET key == default_map_to_key(num_map)
    IN IF key \in DOMAIN all_maps THEN all_maps[key] ELSE <<>>

\* Solver.get_variety_matches raises KeyError
VarietyKeyError(all_maps, attribute, answer_map) ==
    \/ attribute \notin DOMAIN all_maps
    \/ default_map_to_key(answer_map) \notin DOMAIN all_maps[attribute]

\* Solver.get_variety_matches: all_maps[attribute][answer_map]
get_variety_matches(all_maps, attribute, answer_map) ==
    all_maps[attribute][default_map_to_key(answer_map)]

\* the buckets of a set of keys extended in the order the builder inserted
\* them, which is the order of their first numbers
RECURSIVE ExtendInOrder(_, _)
ExtendInOrder(map_file, keys) ==
    IF keys = {} THEN <<>>
    ELSE LET first == CHOOSE k \in keys :
                         \A o \in keys : Head(map_file[k]) <= Head(map_file[o])
         IN map_file[first] \o ExtendInOrder(map_file, keys \ {first})

\* get_even_matches as it would be if it looked the parity map up like the
\* simple clue types do
get_even_matches_exact(map_file, num_map) == get_simple_matches(map_file, num_map)

\* Solver.get_even_matches
get_even_matches(map_file, num_map) ==
    LET matching_maps == {candidate_map \in DOMAIN map_file :
                             Count(candidate_map, 1) = Count(num_map, 1)}
    IN ExtendInOrder(map_file, matching_maps)

\* the get_<clue>_matches call of one configuration entry raises KeyError
MatchesKeyError(kwargs, maps, map_file) ==
    /\ kwargs.clue \in {"special_properties", "partials"}
    /\ VarietyKeyError(map_file, kwargs.attribute,
                       maps[MapName(kwargs.attribute, kwargs.clue)])

\* the get_<clue>_matches call of one configuration entry
MatchesOf(kwargs, maps, map_file) ==
    CASE kwargs.clue = "even" ->
            get_even_matches(map_file, maps[MapName("", kwargs.clue)])
      [] kwargs.clue \in {"multiples", "total_sum", "order"} ->
            get_simple_matches(map_file, maps[MapName("", kwargs.clue)])
      [] kwargs.clue \in {"special_properties", "partials"} ->
            get_variety_matches(map_file, kwargs.attribute,
                                maps[MapName(kwargs.attribute, kwargs.clue)])

\* Solver.get_all_matches: an entry without a get_<clue>_matches method is
\* skipped; a KeyError of a variety clue type propagates
get_all_matches(clues, maps, difficulty, files) ==
    LET handled == {i \in DOMAIN clues : clues[i].clue \in GetMethods}
        at(key) == CHOOSE i \in handled : clues[i].key = key
        raised == \E i \in handled :
                     MatchesKeyError(clues[i], maps, files[difficulty][clues[i].key])
    IN IF raised THEN [raised |-> "KeyError", matches |-> <<>>]
       ELSE [raised |-> "none",
             matches |-> Stored([key \in {clues[i].key : i \in handled} |->
                            MatchesOf(clues[at(key)], maps, files[difficulty][key])])]

\* Solver._filter_by_length as it would be if it kept every match
_filter_by_length_keep_all(matches, answer) ==
    Stored([attr \in DOMAIN matches |-> matches[attr]])

\* Solver._filter_by_length
_filter_by_length(matches, answer) ==
    Stored([attr \in DOMAIN matches |->
        SelectSeq(matches[attr], LAMBDA match : StrLen(match) = StrLen(answer))])

\* map(set, ...): the matches of every clue type as sets
MatchSets(all_matches) ==
    Stored([attr \in DOMAIN all_matches |-> Range(all_matches[attr])])

\* set.intersection(*map(set, combo.values()))
Overlap(match_sets, combo) ==
    LET any == CHOOSE attr \in combo : TRUE
    IN {n \in match_sets[any] : \A attr \in combo : n \in match_sets[attr]}

\* the entry find_overlaps would store without the filter
\* `item[0] in combo` on self.clues.items()
ComboInfo_unfiltered(combo, clues) ==
    LET RECURSIVE Total(_)
        Total(keys) == IF keys = {} THEN 0
                       ELSE LET k == CHOOSE k \in keys : TRUE
                            IN Len(clues[k]) + Total(keys \ {k})
    IN [clues |-> clues, num_clues |-> Total(DOMAIN clues)]

\* the entry find_overlaps stores for a solved combination
ComboInfo(combo, clues) ==
    LET combo_clues == Stored([key \in DOMAIN clues \cap combo |-> clues[key]])
        RECURSIVE Total(_)
        Total(keys) == IF keys = {} THEN 0
                       ELSE LET k == CHOOSE k \in keys : TRUE
                            IN Len(combo_clues[k]) + Total(keys \ {k})
    IN [clues |-> combo_clues, num_clues |-> Total(DOMAIN combo_clues)]

\* the solved combinations of one size as they would be with the test
\* len(overlapping_nums) >= 1
SolvedOfSize_nonempty(match_sets, size) ==
    {combo \in SUBSET DOMAIN match_sets :
        /\ Cardinality(combo) = size
        /\ Overlap(match_sets, combo) # {}}

\* the solved combinations of one size: the combinations whose matches
\* overlap in exactly one number
SolvedOfSize(match_sets, size) ==
    {combo \in SUBSET DOMAIN match_sets :
        /\ Cardinality(combo) = size
        /\ Cardinality(Overlap(match_sets, combo)) = 1}

\* find_overlaps as it would be if it scanned the sizes in ascending order
\* on every difficulty
clue_types_ascending(all_matches, difficulty) ==
    [i \in 1..Cardinality(DOMAIN all_matches) |-> i]

\* clue_types as it would be with range(len(all_matches) - 1, 0, -1) on
\* easy
clue_types_below_full(all_matches, difficulty) ==
    LET n == Cardinality(DOMAIN all_matches)
    IN IF difficulty = "easy" THEN [i \in 1..(n - 1) |-> n - i] ELSE [i \in 1..n |-> i]

\* range(len(all_matches), 0, -1) if easy else range(1, len(all_matches) + 1)
clue_types(all_matches, difficulty) ==
    LET n == Cardinality(DOMAIN all_matches)
    IN IF difficulty = "easy" THEN [i \in 1..n |-> n + 1 - i] ELSE [i \in 1..n |-> i]

\* the loop over sizes of find_overlaps as it would be without the break:
\* the solved combinations of every size
RECURSIVE ScanSizes_no_break(_, _, _)
ScanSizes_no_break(match_sets, sizes, i) ==
    IF i > Len(sizes) THEN {}
    ELSE SolvedOfSize(match_sets, sizes[i]) \cup ScanSizes_no_break(match_sets, sizes, i + 1)

\* the loop over sizes of find_overlaps, from the i-th size on: it breaks
\* after the first size with a solved combination
RECURSIVE ScanSizes(_, _, _)
ScanSizes(match_sets, sizes, i) ==
    IF i > Len(sizes) THEN {}
    ELSE LET found == SolvedOfSize(match_sets, sizes[i])
         IN IF found # {} THEN found ELSE ScanSizes(match_sets, sizes, i + 1)

\* Solver.find_overlaps: solved_combos
find_overlaps(all_matches, clues, difficulty) ==
    LET found == ScanSizes(MatchSets(all_matches), clue_types(all_matches, difficulty), 1)
    IN Stored([combo \in found |-> ComboInfo(combo, clues)])

Min(S) == CHOOSE x \in S : \A y \in S : x <= y

\* find_most_fun_clues as it would be with clues_func = max
find_most_fun_clues_max(solved_combos) ==
    LET combo_size == Min({Cardinality(combo) : combo \in DOMAIN solved_combos})
        combos == {combo \in DOMAIN solved_combos : Cardinality(combo) = combo_size}
        num_clues == CHOOSE x \in {solved_combos[combo].num_clues : combo \in combos} :
                        \A combo \in combos : solved_combos[combo].num_clues <= x
        funnest_combos == {combo \in combos : solved_combos[combo].num_clues = num_clues}
    IN [funnest_combos |-> funnest_combos, combo_size |-> combo_size]

\* Solver.find_most_fun_clues as it would be if randint chose among combos,
\* the combinations of the size, whatever their number of clues
find_most_fun_clues_any_count(solved_combos) ==
    LET combo_size == Min({Cardinality(combo) : combo \in DOMAIN solved_combos})
        combos == {combo \in DOMAIN solved_combos : Cardinality(combo) = combo_size}
    IN [funnest_combos |-> combos, combo_size |-> combo_size]

\* Solver.find_most_fun_clues: the combinations randint chooses among, and
\* the combination size returned
find_most_fun_clues(solved_combos) ==
    LET combo_size == Min({Cardinality(combo) : combo \in DOMAIN solved_combos})
        combos == {combo \in DOMAIN solved_combos : Cardinality(combo) = combo_size}
        num_clues == Min({solved_combos[combo].num_clues : combo \in combos})
        funnest_combos == {combo \in combos : solved_combos[combo].num_clues = num_clues}
    IN [funnest_combos |-> funnest_combos, combo_size |-> combo_size]

-----------------------------------------------------------------------------
(* The state machine *)

\* the `min` arguments the builder is run with
BuilderMins == {1, IndexMin}

NoGen == [target |-> 0]

NoSolver == [answer |-> 0]

NoBuilder == [max |-> 0]

NoEnc == [family |-> "none"]

\* a session without keys
NoSession == <<>>

\* nothing is built, nothing is loaded
Init ==
    /\ maps_db = [d \in Difficulties |-> <<>>]
    /\ map_files = <<>>
    /\ build_log = {}
    /\ pc = "offline"
    /\ clue_gen = NoGen
    /\ solver = NoSolver
    /\ builder = NoBuilder
    /\ runs = <<>>
    /\ enc = NoEnc
    /\ session = NoSession
    /\ cookie = NoSession
    /\ attempts = 0

\* MapsDatabaseBuilder(min, max, difficulty): one run of the builder for a
\* difficulty; each file it writes replaces the file of the same name
Build(min, difficulty, clues) ==
    /\ pc = "offline"
    /\ builder' = [min |-> min, max |-> IndexMax, difficulty |-> difficulty]
    /\ LET built == store_all_maps(clues, builder'.max, difficulty)
       IN /\ maps_db' = [maps_db EXCEPT ![difficulty] = built.files @@ @]
          /\ build_log' = built.skipped
    /\ UNCHANGED <<map_files, pc, clue_gen, solver, runs, enc, session, cookie, attempts>>

\* Digits.__init__ at the start of the serving process: load_map_files
\* finds every file
Startup ==
    /\ pc = "offline"
    /\ CanLoad(maps_db)
    /\ map_files' = load_map_files(maps_db)
    /\ pc' = "idle"
    /\ build_log' = {}
    /\ builder' = NoBuilder
    /\ UNCHANGED <<maps_db, clue_gen, solver, runs, enc, session, cookie, attempts>>

\* Digits.__init__ at process start: a file is missing and the process dies
StartupFails ==
    /\ pc = "offline"
    /\ ~CanLoad(maps_db)
    /\ pc' = "failed"
    /\ UNCHANGED <<maps_db, map_files, build_log, clue_gen, solver, builder, runs, enc, session, cookie, attempts>>

\* ClueGenerator(number, difficulty)
Generate(number, difficulty) ==
    /\ pc = "idle"
    /\ clue_gen' = NewClueGenerator(number, difficulty)
    /\ pc' = "generated"
    /\ UNCHANGED <<maps_db, map_files, build_log, solver, builder, runs, enc, session, cookie, attempts>>

\* the Solver object when get_all_matches raised
RaisedSolver(gen, answer, raised) ==
    [digits |-> gen.digits, answer |-> answer, maps |-> gen.num_maps,
     difficulty |-> gen.difficulty, clues |-> gen.clues,
     final_clues |-> NoneValue, num_clue_types |-> NoneValue, raised |-> raised,
     matches |-> <<>>, solved_combos |-> <<>>, combo |-> {}]

\* the Solver object as it would be if final_clues started as an empty dict
\* that the solved branch fills
UnsolvedSolver_empty_dict(gen, answer, matches) ==
    [RaisedSolver(gen, answer, "none") EXCEPT !.matches = matches,
                                              !.final_clues = Some(<<>>)]

\* the Solver object when no combination is solved
UnsolvedSolver(gen, answer, matches) ==
    [RaisedSolver(gen, answer, "none") EXCEPT !.matches = matches]

\* the Solver object after find_most_fun_clues chose combo:
\* add_negative_constraint_clues appends to the lists of the chosen clue
\* types, which are the lists of self.clues, then the keys are renamed
SolvedSolver(gen, answer, matches, solved_combos, combo, combo_size) ==
    LET final_clues == add_negative_constraint_clues(solved_combos[combo].clues,
                                                     gen.difficulty)
    IN [digits |-> gen.digits, answer |-> answer, maps |-> gen.num_maps,
        difficulty |-> gen.difficulty,
        clues |-> [key \in DOMAIN gen.clues |->
                      IF key \in DOMAIN final_clues THEN final_clues[key]
                      ELSE gen.clues[key]],
        final_clues |-> Some(update_final_clue_keys(final_clues)),
        num_clue_types |-> Some(combo_size), raised |-> "none",
        matches |-> matches, solved_combos |-> solved_combos, combo |-> combo]

\* Solver.__init__ on the generator's digits, maps and clues
Solve ==
    /\ pc = "generated"
    /\ LET answer == digits_to_num(clue_gen.digits)
           got == get_all_matches(CLUES, clue_gen.num_maps, clue_gen.difficulty, map_files)
           matches == _filter_by_length(got.matches, answer)
           solved_combos == find_overlaps(matches, clue_gen.clues, clue_gen.difficulty)
           most_fun == find_most_fun_clues(solved_combos)
       IN IF got.raised # "none"
          THEN /\ solver' = RaisedSolver(clue_gen, answer, got.raised)
               /\ pc' = "raised"
               /\ UNCHANGED clue_gen
          ELSE IF DOMAIN solved_combos = {}
          THEN /\ solver' = UnsolvedSolver(clue_gen, answer, matches)
               /\ pc' = "done"
               /\ UNCHANGED clue_gen
          ELSE \E combo \in most_fun.funnest_combos :
                 /\ solver' = SolvedSolver(clue_gen, answer, matches, solved_combos,
                                           combo, most_fun.combo_size)
                 /\ clue_gen' = [clue_gen EXCEPT !.clues = solver'.clues]
                 /\ pc' = "done"
    /\ UNCHANGED <<maps_db, map_files, build_log, builder, runs, enc, session, cookie, attempts>>

\* the caller is handed the Solver's result and drops both objects
Return ==
    /\ pc \in {"done", "raised"}
    /\ pc' = "idle"
    /\ clue_gen' = NoGen
    /\ solver' = NoSolver
    /\ UNCHANGED <<maps_db, map_files, build_log, builder, runs, enc, session, cookie, attempts>>

Next ==
    \/ \E min \in BuilderMins : \E difficulty \in Difficulties : \E clues \in Configs :
          Build(min, difficulty, clues)
    \/ Startup
    \/ StartupFails
    \/ \E number \in 1..MaxAnswer : \E difficulty \in Difficulties :
          Generate(number, difficulty)
    \/ Solve
    \/ Return

Spec == Init /\ [][Next]_vars

-----------------------------------------------------------------------------
(* Concurrent requests: every request of the web application builds its    *)
(* own ClueGenerator and Solver; all of them read digits_obj.map_files.    *)
(* A Solver run is taken apart into the calls of Solver.__init__.          *)

\* the index files of a builder run per difficulty with the shipped CLUES
BuiltIndex == [d \in Difficulties |-> store_all_maps(CLUES, IndexMax, d).files]

\* digits_obj.map_files of the serving process
LoadedIndex == load_map_files(BuiltIndex)

\* the requests in flight
Requests == 1..NumRuns

\* a request that has not built its objects
IdleRun == [pc |-> "idle", gen |-> NoGen, matches |-> <<>>, solved_combos |-> <<>>,
            solver |-> NoSolver]

\* the index after _filter_by_length ran as it would be if the filter
\* deleted from the lists it is given: the lists of the simple and variety
\* clue types are the buckets of the index themselves
BucketsAfterFilter_in_place(index, gen, matches) ==
    [index EXCEPT ![gen.difficulty] =
        [key \in DOMAIN @ |->
            LET kwargs == ConfigOf(key)
                num_map == default_map_to_key(gen.num_maps[MapName(kwargs.attribute, kwargs.clue)])
                kept(list) == SelectSeq(list, LAMBDA match : StrLen(match) = StrLen(gen.target))
            IN IF kwargs.clue = "even" THEN @[key]
               ELSE IF kwargs.attribute = ""
               THEN IF num_map \in DOMAIN @[key]
                    THEN [@[key] EXCEPT ![num_map] = kept(@)] ELSE @[key]
               ELSE [@[key] EXCEPT ![kwargs.attribute][num_map] = kept(@)]]]

\* the index after _filter_by_length ran: matches[attr] is bound to a new
\* list made by list(filter(...)); the list it was bound to, a bucket of
\* the index for the simple and variety clue types, is not written
BucketsAfterFilter(index, gen, matches) == index

\* ClueGenerator(session["answer"], session["difficulty"]) of a request
RunGenerate(r, number, difficulty) ==
    /\ runs[r].pc = "idle"
    /\ runs' = [runs EXCEPT ![r] = [IdleRun EXCEPT !.pc = "generated",
                                       !.gen = NewClueGenerator(number, difficulty)]]
    /\ UNCHANGED <<maps_db, map_files, build_log, pc, clue_gen, solver, builder, enc, session, cookie, attempts>>

\* Solver.__init__ up to get_all_matches: reads of the shared index
RunGetAllMatches(r) ==
    /\ runs[r].pc = "generated"
    /\ LET gen == runs[r].gen
           got == get_all_matches(CLUES, gen.num_maps, gen.difficulty, map_files)
       IN runs' = [runs EXCEPT ![r] =
              IF got.raised # "none"
              THEN [@ EXCEPT !.pc = "raised",
                             !.solver = RaisedSolver(gen, gen.target, got.raised)]
              ELSE [@ EXCEPT !.pc = "matched", !.matches = got.matches]]
    /\ UNCHANGED <<maps_db, map_files, build_log, pc, clue_gen, solver, builder, enc, session, cookie, attempts>>

\* Solver._filter_by_length
RunFilterByLength(r) ==
    /\ runs[r].pc = "matched"
    /\ runs' = [runs EXCEPT ![r].pc = "filtered",
                            ![r].matches = _filter_by_length(@, runs[r].gen.target)]
    /\ map_files' = BucketsAfterFilter(map_files, runs[r].gen, runs[r].matches)
    /\ UNCHANGED <<maps_db, build_log, pc, clue_gen, solver, builder, enc, session, cookie, attempts>>

\* Solver.find_overlaps
RunFindOverlaps(r) ==
    /\ runs[r].pc = "filtered"
    /\ runs' = [runs EXCEPT ![r].pc = "searched",
                            ![r].solved_combos =
                                find_overlaps(runs[r].matches, runs[r].gen.clues,
                                              runs[r].gen.difficulty)]
    /\ UNCHANGED <<maps_db, map_files, build_log, pc, clue_gen, solver, builder, enc, session, cookie, attempts>>

\* the rest of Solver.__init__: find_most_fun_clues,
\* add_negative_constraint_clues and update_final_clue_keys, or the prints
RunFinish(r) ==
    /\ runs[r].pc = "searched"
    /\ LET run == runs[r]
       IN IF DOMAIN run.solved_combos = {}
          THEN runs' = [runs EXCEPT ![r].pc = "done",
                           ![r].solver = UnsolvedSolver(run.gen, run.gen.target, run.matches)]
          ELSE \E combo \in find_most_fun_clues(run.solved_combos).funnest_combos :
                  runs' = [runs EXCEPT ![r].pc = "done",
                              ![r].solver = SolvedSolver(run.gen, run.gen.target, run.matches,
                                  run.solved_combos, combo,
                                  find_most_fun_clues(run.solved_combos).combo_size)]
    /\ UNCHANGED <<maps_db, map_files, build_log, pc, clue_gen, solver, builder, enc, session, cookie, attempts>>

\* the request is answered and its objects are dropped
RunReturn(r) ==
    /\ runs[r].pc \in {"done", "raised"}
    /\ runs' = [runs EXCEPT ![r] = IdleRun]
    /\ UNCHANGED <<maps_db, map_files, build_log, pc, clue_gen, solver, builder, enc, session, cookie, attempts>>

\* the serving process after start-up, with no request in flight
InitConcurrent ==
    /\ maps_db = BuiltIndex
    /\ map_files = LoadedIndex
    /\ build_log = {}
    /\ pc = "idle"
    /\ clue_gen = NoGen
    /\ solver = NoSolver
    /\ builder = NoBuilder
    /\ runs = [r \in Requests |-> IdleRun]
    /\ enc = NoEnc
    /\ session = NoSession
    /\ cookie = NoSession
    /\ attempts = 0

NextConcurrent ==
    \E r \in Requests :
        \/ \E number \in RunAnswers : \E difficulty \in RunDifficulties :
              RunGenerate(r, number, difficulty)
        \/ RunGetAllMatches(r)
        \/ RunFilterByLength(r)
        \/ RunFindOverlaps(r)
        \/ RunFinish(r)
        \/ RunReturn(r)

SpecConcurrent == InitConcurrent /\ [][NextConcurrent]_vars

-----------------------------------------------------------------------------
(* Games on a wider index: the serving process after start-up with an      *)
(* index built up to WideMax, and answers of the index's last numbers.     *)

\* the index files of a builder run up to WideMax
WideBuiltIndex == [d \in Difficulties |-> store_all_maps(CLUES, WideMax, d).files]

\* the answers of the games
WideAnswers == WideFirst..WideMax

InitWide ==
    /\ maps_db = WideBuiltIndex
    /\ map_files = load_map_files(WideBuiltIndex)
    /\ build_log = {}
    /\ pc = "idle"
    /\ clue_gen = NoGen
    /\ solver = NoSolver
    /\ builder = NoBuilder
    /\ runs = <<>>
    /\ enc = NoEnc
    /\ session = NoSession
    /\ cookie = NoSession
    /\ attempts = 0

NextWide ==
    \/ \E number \in WideAnswers : \E difficulty \in Difficulties :
          Generate(number, difficulty)
    \/ Solve
    \/ Return

SpecWide == InitWide /\ [][NextWide]_vars

-----------------------------------------------------------------------------
(* The clue maps on their own: a clue map object is built for a digit list *)
(* and the generator makes the clues of its family from it.                *)

\* the digit lists a clue map is built for: every list of up to MaxLen
\* digits, and the longer lists of the documented examples
ExampleDigits == {<<1, 3, 9, 7>>, <<1, 2, 3, 4>>, <<1, 2, 2, 3, 6>>}
DigitLists == UNION {[1..n -> 0..9] : n \in 1..MaxLen} \cup ExampleDigits

\* the limits of the configurations: multiples 4 and 9; special
\* properties 1, 2 and none
MultiplesLimits == {4, 9}
SpecialLimits == {1, 2, None}

\* the clue map object and the clues made from it
Encoded(family, attribute, limit, digits, made) ==
    [family |-> family, attribute |-> attribute, limit |-> limit, digits |-> digits,
     num_map |-> made.num_map, clues |-> made.clues]

\* a digit list handed in, no clue map built for it yet
Input(digits) == [family |-> "none", digits |-> digits]

\* MultiplesClueMap(digits, limit) in generate_multiples_clues
EncodeMultiples(limit) ==
    /\ enc.family = "none"
    /\ enc' = Encoded("multiples", "", limit, enc.digits,
                      generate_multiples_clues(enc.digits, limit))
    /\ UNCHANGED <<maps_db, map_files, build_log, pc, clue_gen, solver, builder, runs, session, cookie, attempts>>

\* TotalSumClueMap(digits) in generate_total_sum_clues
EncodeTotalSum ==
    /\ enc.family = "none"
    /\ enc' = Encoded("total_sum", "", None, enc.digits,
                      generate_total_sum_clues(enc.digits))
    /\ UNCHANGED <<maps_db, map_files, build_log, pc, clue_gen, solver, builder, runs, session, cookie, attempts>>

\* EvenClueMap(digits) in generate_even_clues
EncodeEven ==
    /\ enc.family = "none"
    /\ enc' = Encoded("even", "", None, enc.digits, generate_even_clues(enc.digits))
    /\ UNCHANGED <<maps_db, map_files, build_log, pc, clue_gen, solver, builder, runs, session, cookie, attempts>>

\* OrderClueMap(digits) in generate_order_clues
EncodeOrder ==
    /\ enc.family = "none"
    /\ enc' = Encoded("order", "", None, enc.digits, generate_order_clues(enc.digits))
    /\ UNCHANGED <<maps_db, map_files, build_log, pc, clue_gen, solver, builder, runs, session, cookie, attempts>>

\* SpecialPropertiesClueMap(digits, prop_func, attribute, limit) in
\* generate_special_properties_clues
EncodeSpecialProperties(attribute, limit) ==
    /\ enc.family = "none"
    /\ enc' = Encoded("special_properties", attribute, limit, enc.digits,
                      generate_special_properties_clues(enc.digits, attribute, limit))
    /\ UNCHANGED <<maps_db, map_files, build_log, pc, clue_gen, solver, builder, runs, session, cookie, attempts>>

\* PartialsClueMap(digits, partial_func, attribute) in generate_partials_clues
EncodePartials(attribute) ==
    /\ enc.family = "none"
    /\ enc' = Encoded("partials", attribute, None, enc.digits,
                      generate_partials_clues(enc.digits, attribute))
    /\ UNCHANGED <<maps_db, map_files, build_log, pc, clue_gen, solver, builder, runs, session, cookie, attempts>>

\* a digit list is handed in
InitEncoders ==
    /\ maps_db = [d \in Difficulties |-> <<>>]
    /\ map_files = <<>>
    /\ build_log = {}
    /\ pc = "offline"
    /\ clue_gen = NoGen
    /\ solver = NoSolver
    /\ builder = NoBuilder
    /\ runs = <<>>
    /\ \E digits \in DigitLists : enc = Input(digits)
    /\ session = NoSession
    /\ cookie = NoSession
    /\ attempts = 0

NextEncoders ==
    \/ \E limit \in MultiplesLimits : EncodeMultiples(limit)
    \/ EncodeTotalSum
    \/ EncodeEven
    \/ EncodeOrder
    \/ \E attribute \in {"prime", "perfect", "fibonacci"} :
          \E limit \in SpecialLimits : EncodeSpecialProperties(attribute, limit)
    \/ \E attribute \in {"product", "sum"} : EncodePartials(attribute)

SpecEncoders == InitEncoders /\ [][NextEncoders]_vars

-----------------------------------------------------------------------------
(* app.py: the digits handler of the web application, one browser's        *)
(* submissions one after the other. session is the Flask session of the    *)
(* request being handled, cookie what the browser holds between requests.  *)

\* solver_attempts of the digits handler
solver_attempts == 3

\* the answers generate_answer draws in the model: one that is solved on
\* every difficulty, one that is unsolvable on easy, one outside the index
SessionAnswers == {104, 105, 121}

\* the difficulty buttons and the digit buttons submitted in the model
SessionDifficulties == {"easy", "medium"}
SessionNumDigits == {3}

\* str(clue): the text format_for_display makes of the clue; it is
\* determined by the template of the clue type and the values it formats
str(clue) == <<clue.type, clue.args, clue.word, clue.limit_msg>>

\* clue_dict of the digits handler: the clues of final_clues as strings
clue_dict(final_clues) ==
    [clue_type \in DOMAIN final_clues |->
        [i \in DOMAIN final_clues[clue_type] |-> str(final_clues[clue_type][i])]]

\* Solver(clue_gen.digits, clue_gen.num_maps, clue_gen.clues, difficulty,
\* map_files): the objects Solver.__init__ can leave
SolverResults(gen, index) ==
    LET answer == digits_to_num(gen.digits)
        got == get_all_matches(CLUES, gen.num_maps, gen.difficulty, index)
        matches == _filter_by_length(got.matches, answer)
        solved_combos == find_overlaps(matches, gen.clues, gen.difficulty)
        most_fun == find_most_fun_clues(solved_combos)
    IN IF got.raised # "none" THEN {RaisedSolver(gen, answer, got.raised)}
       ELSE IF DOMAIN solved_combos = {} THEN {UnsolvedSolver(gen, answer, matches)}
       ELSE {SolvedSolver(gen, answer, matches, solved_combos, combo, most_fun.combo_size) :
                combo \in most_fun.funnest_combos}

\* session.get(key) is truthy
Truthy(dict, key) == key \in DOMAIN dict /\ dict[key] # <<>>

\* the loop `for _ in range(solver_attempts)` as it would be without the
\* break
LoopContinues_no_break(passes, made) == passes < solver_attempts

\* the loop `for _ in range(solver_attempts)` goes on to another pass: no
\* break was taken and passes are left
LoopContinues(passes, made) ==
    made.final_clues = NoneValue /\ passes < solver_attempts

\* POST of a valid DigitsForm: the difficulty and the number of digits are
\* put in the session
Submit(difficulty, num_digits) ==
    /\ pc \in {"idle", "form", "error_page"}
    /\ session' = [difficulty |-> difficulty, num_digits |-> num_digits] @@ cookie
    /\ attempts' = 0
    /\ clue_gen' = NoGen
    /\ solver' = NoSolver
    /\ pc' = "loop"
    /\ UNCHANGED <<maps_db, map_files, build_log, builder, runs, enc, cookie>>

\* a pass of the loop begins: generate_answer and ClueGenerator
GenerateAnswer(number) ==
    /\ pc = "loop"
    /\ attempts < solver_attempts
    /\ StrLen(number) = session.num_digits
    /\ session' = [answer |-> number] @@ session
    /\ clue_gen' = NewClueGenerator(number, session.difficulty)
    /\ attempts' = attempts + 1
    /\ pc' = "generated"
    /\ UNCHANGED <<maps_db, map_files, build_log, solver, builder, runs, enc, cookie>>

\* the pass ends, the Solver built (action Solve): the test of
\* solver.final_clues, the clues put in the session, and the break
TestFinalClues ==
    /\ pc = "done"
    /\ session' = IF solver.final_clues # NoneValue
                  THEN [clues |-> clue_dict(solver.final_clues[1])] @@ session
                  ELSE session
    /\ pc' = IF LoopContinues(attempts, solver) THEN "loop" ELSE "after_loop"
    /\ UNCHANGED <<maps_db, map_files, build_log, clue_gen, solver, builder, runs, enc,
                   cookie, attempts>>

\* after the loop: redirect to the guess page when the session has clues,
\* else the form again; the response carries the session
Respond ==
    /\ pc = "after_loop"
    /\ pc' = IF Truthy(session, "clues") THEN "guess" ELSE "form"
    /\ cookie' = session
    /\ UNCHANGED <<maps_db, map_files, build_log, clue_gen, solver, builder, runs, enc,
                   session, attempts>>

\* the KeyError of a lookup leaves the handler: the error response carries
\* the session, or under the debugger (app.run(debug=True)) it does not
Fail ==
    /\ pc = "raised"
    /\ pc' = "error_page"
    /\ \E saved \in {session, cookie} : cookie' = saved
    /\ UNCHANGED <<maps_db, map_files, build_log, clue_gen, solver, builder, runs, enc,
                   session, attempts>>

\* guess() with submit_play_again: redirect to the form; the session is
\* read, not written
PlayAgain ==
    /\ pc = "guess"
    /\ pc' = "idle"
    /\ UNCHANGED <<maps_db, map_files, build_log, clue_gen, solver, builder, runs, enc,
                   session, cookie, attempts>>

\* the serving process after start-up and a browser without a session
InitSession ==
    /\ maps_db = BuiltIndex
    /\ map_files = LoadedIndex
    /\ build_log = {}
    /\ pc = "idle"
    /\ clue_gen = NoGen
    /\ solver = NoSolver
    /\ builder = NoBuilder
    /\ runs = <<>>
    /\ enc = NoEnc
    /\ session = NoSession
    /\ cookie = NoSession
    /\ attempts = 0

NextSession ==
    \/ \E difficulty \in SessionDifficulties : \E num_digits \in SessionNumDigits :
          Submit(difficulty, num_digits)
    \/ \E number \in SessionAnswers : GenerateAnswer(number)
    \/ Solve
    \/ TestFinalClues
    \/ Respond
    \/ Fail
    \/ PlayAgain

SpecSession == InitSession /\ [][NextSession]_vars

-----------------------------------------------------------------------------
(* Notions of the specification, stated apart from the solver's code *)

Max(S) == CHOOSE x \in S : \A y \in S : x >= y

\* the Solver ran to the end of __init__
Finished == pc = "done"

\* the Solver finished with final clues set
Solved == Finished /\ solver.final_clues # NoneValue

\* a MatchSet as a set of integers
SetOf(matches) == Stored([f \in DOMAIN matches |-> Range(matches[f])])

\* the integers every family of a combination matches
Intersection(sets, combination) ==
    {n \in UNION {sets[f] : f \in combination} : \A f \in combination : n \in sets[f]}

\* the solved combinations: non-empty, and the intersection has one element
SolvedCombinations(matches) ==
    LET sets == SetOf(matches)
    IN {c \in SUBSET DOMAIN matches :
           c # {} /\ Cardinality(Intersection(sets, c)) = 1}

\* the sizes at which a solved combination exists
SolvedSizes(matches) == {Cardinality(c) : c \in SolvedCombinations(matches)}

\* the size the difficulty prefers among the sizes with a solved combination
WinningSize(matches, difficulty) ==
    IF difficulty = "easy" THEN Max(SolvedSizes(matches)) ELSE Min(SolvedSizes(matches))

\* the clue lists the generator makes for an answer, before any Solver ran
GeneratedClues(answer, difficulty) == NewClueGenerator(answer, difficulty).clues

\* the total clue count of a combination
RECURSIVE ClueCount(_, _)
ClueCount(clues, combination) ==
    IF combination = {} THEN 0
    ELSE LET f == CHOOSE f \in combination : TRUE
         IN Len(clues[f]) + ClueCount(clues, combination \ {f})

\* the solved combinations of the winning size with the least total clue count
MinimalCombinations(matches, clues, difficulty) ==
    LET size == WinningSize(matches, difficulty)
        ofSize == {c \in SolvedCombinations(matches) : Cardinality(c) = size}
        least == Min({ClueCount(clues, c) : c \in ofSize})
    IN {c \in ofSize : ClueCount(clues, c) = least}

\* the negative-constraint descriptors of a clue list
NegativeDescriptors(list) == {i \in DOMAIN list : list[i].type = "negative"}

-----------------------------------------------------------------------------
(* C1 *)

\* C1: whenever the Solver finishes with final clues set, the intersection
\* of the length-filtered match lists of the families of the chosen
\* combination is exactly {answer}.
C1_SolvedIsolatesAnswer ==
    Solved =>
        Intersection(SetOf(solver.matches), solver.combo) = {solver.answer}

-----------------------------------------------------------------------------
(* C2 *)

\* C2: when the Solver finishes solved, the number of families of the
\* returned combination is, on easy, the largest size at which a solved
\* combination exists and, on medium and hard, the smallest such size.
C2_WinningSizeByDifficulty ==
    Solved =>
        /\ Cardinality(solver.combo) = WinningSize(solver.matches, solver.difficulty)
        /\ Cardinality(DOMAIN solver.final_clues[1]) = Cardinality(solver.combo)
        /\ solver.num_clue_types = Some(Cardinality(solver.combo))

\* solved on easy and on another difficulty while solved combinations of
\* several sizes exist, so that largest and smallest differ
C2_Witness ==
    /\ Solved
    /\ Cardinality(SolvedSizes(solver.matches)) > 1
    /\ solver.difficulty = "easy"
    /\ Cardinality(solver.combo) > Min(SolvedSizes(solver.matches))

-----------------------------------------------------------------------------
(* C3 *)

\* the families NEGATIVE_CONSTRAINT_CLUES has a template for
FamiliesWithTemplate == {"multiples", "prime", "fibonacci", "perfect", "product", "sum"}

\* C3: when the Solver finishes solved, the final clues hold exactly one
\* negative-constraint descriptor for every family that is in the chosen
\* combination and has a template, and none for any other family; so
\* total_sum, even and order never get one.
C3_NegativeConstraintIffTemplate ==
    Solved =>
        /\ DOMAIN solver.final_clues[1] = {format_clue_type(f) : f \in solver.combo}
        /\ \A f \in solver.combo :
              Cardinality(NegativeDescriptors(solver.final_clues[1][format_clue_type(f)]))
                  = IF f \in FamiliesWithTemplate THEN 1 ELSE 0
        /\ \A f \in DOMAIN solver.clues :
              Cardinality(NegativeDescriptors(solver.clues[f]))
                  = IF f \in solver.combo /\ f \in FamiliesWithTemplate THEN 1 ELSE 0

\* solved with a combination that has a family with a template, a family
\* without one, and leaves out a family with a template
C3_Witness ==
    /\ Solved
    /\ solver.combo \cap FamiliesWithTemplate # {}
    /\ solver.combo \ FamiliesWithTemplate # {}
    /\ FamiliesWithTemplate \ solver.combo # {}

-----------------------------------------------------------------------------
(* C4 *)

\* the table of one family in a built index: the dict of buckets by map
TableOf(db, difficulty, key) ==
    IF ConfigOf(key).attribute = "" THEN db[difficulty][key]
    ELSE db[difficulty][key][ConfigOf(key).attribute]

\* the fingerprint of n for a family, with the limit of the difficulty
FingerprintOf(key, n, difficulty) ==
    NumMapOf(ConfigOf(key).clue, ConfigOf(key).attribute, num_to_digits(n),
             LimitOf(ConfigOf(key), difficulty))

\* C4: after a build, for every difficulty and family stored, every integer
\* n of 1..max is in the bucket keyed by the family's fingerprint of the
\* digits of n, computed with the limit of that difficulty.
C4_IndexCompleteness ==
    pc = "offline" =>
        \A difficulty \in Difficulties : \A key \in DOMAIN maps_db[difficulty] :
            LET table == TableOf(maps_db, difficulty, key)
            IN \A n \in 1..IndexMax :
                  LET num_map == FingerprintOf(key, n, difficulty)
                  IN num_map \in DOMAIN table /\ n \in Range(table[num_map])

\* an index of all nine families was built for a difficulty, and a bucket
\* of it holds several integers
C4_Witness ==
    /\ pc = "offline"
    /\ \E difficulty \in Difficulties :
          /\ DOMAIN maps_db[difficulty] = ClueKeys(CLUES)
          /\ \E num_map \in DOMAIN maps_db[difficulty]["multiples"] :
                Len(maps_db[difficulty]["multiples"][num_map]) > 1

-----------------------------------------------------------------------------
(* C5 *)

\* the number of even digits of n
EvenDigits(n) ==
    Cardinality({i \in DOMAIN num_to_digits(n) : num_to_digits(n)[i] % 2 = 0})

\* the integers a table of buckets holds
IndexedIntegers(table) == UNION {Range(table[num_map]) : num_map \in DOMAIN table}

\* C5: the even family's match list after the length filter is the set of
\* all indexed integers with the answer's digit length and the answer's
\* number of even digits, whatever the positions of the even digits, and
\* lists none of them twice.
C5_EvenMatchesByCount ==
    Finished =>
        /\ Range(solver.matches["even"]) =
              {n \in IndexedIntegers(map_files[solver.difficulty]["even"]) :
                  /\ StrLen(n) = StrLen(solver.answer)
                  /\ EvenDigits(n) = EvenDigits(solver.answer)}
        /\ Len(solver.matches["even"]) = Cardinality(Range(solver.matches["even"]))

\* the even matches of an indexed answer hold an integer whose even digits
\* are at other positions than the answer's
C5_Witness ==
    /\ Finished
    /\ solver.answer \in Range(solver.matches["even"])
    /\ \E n \in Range(solver.matches["even"]) :
          EvenClueMap(num_to_digits(n)).num_map # EvenClueMap(solver.digits).num_map

-----------------------------------------------------------------------------
(* C6 *)

\* C6: the combination returned is a solved combination of the winning size
\* whose total clue count, by the generator's clue counts per family, is
\* the least among the solved combinations of that size; the combinations
\* the random tie-break draws from are all the minimal ones, so every one
\* of them is a possible outcome, and with one minimal combination the
\* result is determined by the inputs.
C6_MinimalClueCountSelection ==
    Solved =>
        LET minimal == MinimalCombinations(solver.matches,
                           GeneratedClues(solver.answer, solver.difficulty),
                           solver.difficulty)
        IN /\ solver.combo \in minimal
           /\ find_most_fun_clues(solver.solved_combos).funnest_combos = minimal
           /\ find_most_fun_clues(solver.solved_combos).combo_size
                 = WinningSize(solver.matches, solver.difficulty)

\* solved where several combinations are minimal and a solved combination
\* of the winning size has more clues than they
C6_Witness ==
    /\ Solved
    /\ LET clues == GeneratedClues(solver.answer, solver.difficulty)
           minimal == MinimalCombinations(solver.matches, clues, solver.difficulty)
       IN /\ Cardinality(minimal) > 1
          /\ \E c \in SolvedCombinations(solver.matches) :
                /\ Cardinality(c) = Cardinality(solver.combo)
                /\ c \notin minimal

-----------------------------------------------------------------------------
(* C7 *)

\* C7: when no combination of the match lists is solved, the Solver
\* finishes without raising, final_clues stays None, no negative-constraint
\* descriptor is appended to any clue list, and no key is renamed.
C7_UnsolvableLeavesNone ==
    (pc \in {"done", "raised"} /\ solver.raised = "none"
        /\ SolvedCombinations(solver.matches) = {}) =>
        /\ Finished
        /\ solver.final_clues = NoneValue
        /\ solver.num_clue_types = NoneValue
        /\ solver.clues = GeneratedClues(solver.answer, solver.difficulty)
        /\ clue_gen.clues = solver.clues
        /\ DOMAIN solver.clues = ClueKeys(CLUES)

\* the Solver finished on an answer of the index's range whose match lists
\* are not empty and have no solved combination
C7_Witness ==
    /\ Finished
    /\ SolvedCombinations(solver.matches) = {}
    /\ \A f \in DOMAIN solver.matches : solver.answer \in Range(solver.matches[f])

-----------------------------------------------------------------------------
(* C8 *)

\* the Solver's fingerprint for a family is not a key of the loaded table
LookupMiss(key) ==
    LET kwargs == ConfigOf(key)
        table == map_files[solver.difficulty][key]
        num_map == default_map_to_key(solver.maps[MapName(kwargs.attribute, kwargs.clue)])
    IN IF kwargs.attribute = "" THEN num_map \notin DOMAIN table
       ELSE VarietyKeyError(table, kwargs.attribute, num_map)

\* the families resolved by a lookup of the fingerprint; even is resolved
\* by its count of even digits
FamiliesLookedUp == ClueKeys(CLUES) \ {"even"}

\* C8: for every family, when the answer's fingerprint is not a key of the
\* loaded index, the resolution raises a lookup-miss error that stops the
\* solve; the miss is never an empty match list the subset search consumes.
C8_LookupMissRaises ==
    pc \in {"done", "raised"} =>
        \A key \in FamiliesLookedUp : LookupMiss(key) => solver.raised # "none"

-----------------------------------------------------------------------------
(* C9 *)

\* the digit counts the specification supports
ValidLength(digits) == Len(digits) \in 3..6

\* C9: a digit sequence whose length is outside 3..6 is rejected before any
\* fingerprint is computed for it: no ClueGenerator holds the maps of such
\* a sequence and no Solver resolves match lists for it.
C9_InvalidLengthRejected ==
    /\ clue_gen # NoGen => ValidLength(clue_gen.digits)
    /\ solver # NoSolver => ValidLength(solver.digits)

-----------------------------------------------------------------------------
(* C10 *)

\* C10: a family of the configuration without a handler is a fatal
\* configuration error: no run of the builder skips a family and goes on
\* to store the tables of the others.
C10_UnhandledFamilyIsFatal ==
    \A difficulty \in Difficulties :
        build_log # {} => DOMAIN maps_db[difficulty] = {}

-----------------------------------------------------------------------------
(* C11 *)

\* the solved combinations a Solver finds for a generator's answer when it
\* runs alone on the index as loaded
SolvedAlone(gen) ==
    DOMAIN find_overlaps(
        _filter_by_length(
            get_all_matches(CLUES, gen.num_maps, gen.difficulty, LoadedIndex).matches,
            gen.target),
        gen.clues, gen.difficulty)

\* C11: Solver runs that share one loaded index, in any interleaving of
\* their calls, leave every bucket of the index as it was loaded (same
\* keys, same lists of integers), and the solved combinations every run
\* finds are those it finds when it runs alone.
C11_SharedIndexUnchanged ==
    /\ map_files = LoadedIndex
    /\ \A r \in DOMAIN runs :
          runs[r].pc \in {"searched", "done"} =>
              DOMAIN runs[r].solved_combos = SolvedAlone(runs[r].gen)

\* a run finished solved while another run on the same difficulty holds
\* the lists get_all_matches gave it and has not filtered them yet
C11_Witness ==
    \E r, o \in DOMAIN runs :
        /\ r # o
        /\ runs[r].pc = "done"
        /\ runs[r].solver.final_clues # NoneValue
        /\ runs[o].pc = "matched"
        /\ runs[o].gen.difficulty = runs[r].gen.difficulty
        /\ runs[o].gen.target # runs[r].gen.target

-----------------------------------------------------------------------------
(* C12 *)

\* the answer is a number of the loaded index and the lookup of every
\* family finds the answer's fingerprint
EveryLookupSucceeds ==
    /\ pc \in {"done", "raised"}
    /\ solver.answer \in IndexedIntegers(map_files[solver.difficulty]["even"])
    /\ \A key \in FamiliesLookedUp : ~LookupMiss(key)

\* C12 as stated: for every answer of the indexed range whose lookups all
\* succeed, the match lists of all families intersect in {answer}, and the
\* Solver never reports Unsolvable.
C12_FullSetIsolatesAnswer ==
    EveryLookupSucceeds =>
        /\ Finished
        /\ Intersection(SetOf(solver.matches), DOMAIN solver.matches) = {solver.answer}
        /\ solver.final_clues # NoneValue

\* C12 amended: for every answer of the indexed range whose lookups all
\* succeed, the answer is in the match list of every family, so the
\* intersection over all families holds the answer; it may hold other
\* integers with the same fingerprints, and the Solver reports Unsolvable
\* exactly when no combination, the full one included, is solved.
C12_FullSetHoldsAnswer ==
    EveryLookupSucceeds =>
        /\ Finished
        /\ solver.answer \in Intersection(SetOf(solver.matches), DOMAIN solver.matches)
        /\ DOMAIN solver.matches = ClueKeys(CLUES)
        /\ solver.final_clues = NoneValue <=> SolvedCombinations(solver.matches) = {}
        /\ Intersection(SetOf(solver.matches), DOMAIN solver.matches) = {solver.answer}
              => solver.final_clues # NoneValue

\* every lookup succeeded for an answer of three digits, all families
\* together match a second integer, and the Solver reported Unsolvable
C12_Witness ==
    /\ EveryLookupSucceeds
    /\ Finished
    /\ StrLen(solver.answer) = 3
    /\ Cardinality(Intersection(SetOf(solver.matches), DOMAIN solver.matches)) > 1
    /\ solver.final_clues = NoneValue

-----------------------------------------------------------------------------
(* C13 *)

\* a clue map of the multiples family was built
MultiplesBuilt == enc.family = "multiples"

\* C13: for every digit list and limit L, the cell (i, j) of the multiples
\* map, i # j, with a non-zero digit j is digit i / digit j when that is a
\* whole number of at most L and 0 when it is not whole or exceeds L; every
\* diagonal cell is 0; equal non-zero digits at two positions give 1; for
\* [1,2,4] and L = 4 the cells (2,1), (1,0), (2,0) are 2, 2, 4.
C13_MultiplesCells ==
    MultiplesBuilt =>
        LET d == enc.digits
            map == enc.num_map
        IN /\ \A i \in DOMAIN d : map[i][i] = 0
           /\ \A i \in DOMAIN d : \A j \in DOMAIN d :
                 (i # j /\ d[j] # 0) =>
                     map[i][j] = IF d[i] % d[j] = 0 /\ d[i] \div d[j] <= enc.limit
                                 THEN d[i] \div d[j] ELSE 0
           /\ \A i \in DOMAIN d : \A j \in DOMAIN d :
                 (i # j /\ d[i] = d[j] /\ d[i] # 0) => map[i][j] = 1
           /\ (d = <<1, 2, 4>> /\ enc.limit = 4) =>
                 map = <<<<0, 0, 0>>, <<2, 0, 0>>, <<4, 2, 0>>>>

\* the map of [1,2,4] with limit 4 was built, and it has the three factors
C13_Witness ==
    /\ MultiplesBuilt
    /\ enc.digits = <<1, 2, 4>>
    /\ enc.limit = 4
    /\ enc.num_map[3][2] = 2 /\ enc.num_map[2][1] = 2 /\ enc.num_map[3][1] = 4

-----------------------------------------------------------------------------
(* C14 *)

\* the positions of the zero digits
ZeroPositions(digits) == {i \in DOMAIN digits : digits[i] = 0}

\* C14: the cell (i, j) of the multiples map holds -1 exactly when i # j
\* and digit i = digit j = 0, so only with two zero digits or more, whatever
\* the limit; with one zero digit no cell holds -1 and every cell of that
\* digit's row and column is 0.
C14_ZeroSentinel ==
    MultiplesBuilt =>
        LET d == enc.digits
            map == enc.num_map
        IN /\ \A i \in DOMAIN d : \A j \in DOMAIN d :
                 map[i][j] = -1 <=> (i # j /\ d[i] = 0 /\ d[j] = 0)
           /\ Cardinality(ZeroPositions(d)) = 1 =>
                 \A z \in ZeroPositions(d) : \A k \in DOMAIN d :
                     map[z][k] = 0 /\ map[k][z] = 0

\* the map of [0,0,5] was built, with -1 in the cells (0,1) and (1,0)
C14_Witness ==
    /\ MultiplesBuilt
    /\ enc.digits = <<0, 0, 5>>
    /\ enc.num_map[1][2] = -1 /\ enc.num_map[2][1] = -1
    /\ enc.num_map[3][1] = 0

-----------------------------------------------------------------------------
(* C15 *)

\* the places of n in a table: the bucket and the position in its list
PlacesOf(table, n) ==
    {<<num_map, i>> \in UNION {{num_map} \X DOMAIN table[num_map] : num_map \in DOMAIN table} :
        table[num_map][i] = n}

\* C15: an index built by MapsDatabaseBuilder(min, max, difficulty) holds,
\* in every family's table, exactly the integers of min..max, none below
\* min, and each of them at one place of one bucket.
C15_IndexHoldsExactlyRange ==
    (pc = "offline" /\ builder.max # 0) =>
        \A key \in DOMAIN maps_db[builder.difficulty] :
            LET table == TableOf(maps_db, builder.difficulty, key)
            IN /\ IndexedIntegers(table) = builder.min..builder.max
               /\ \A n \in builder.min..builder.max :
                     Cardinality(PlacesOf(table, n)) = 1

-----------------------------------------------------------------------------
(* C16 *)

\* the prime map of the digits [1,3,9,7] was built
PrimeMapOf1397 ==
    /\ enc.family = "special_properties"
    /\ enc.attribute = "prime"
    /\ enc.digits = <<1, 3, 9, 7>>

-----------------------------------------------------------------------------
(* C17 *)

\* the solved combinations of the winning size; none when nothing is solved
SolvedOfWinningSize(matches, difficulty) ==
    LET solved == SolvedCombinations(matches)
    IN IF solved = {} THEN {}
       ELSE LET size == WinningSize(matches, difficulty)
            IN {c \in solved : Cardinality(c) = size}

\* C17: the solved combinations find_overlaps hands to the selection are
\* exactly the combinations of the winning size whose matches intersect in
\* one element: none of that size is missing, and none of a size that comes
\* after the winning size in the scan is included.
C17_AllSolvedOfWinningSize ==
    Finished =>
        DOMAIN solver.solved_combos = SolvedOfWinningSize(solver.matches, solver.difficulty)

\* the Solver finished with several solved combinations of the winning size
\* while combinations of another size are solved too
C17_Witness ==
    /\ Solved
    /\ Cardinality(DOMAIN solver.solved_combos) > 1
    /\ Cardinality(SolvedSizes(solver.matches)) > 1

-----------------------------------------------------------------------------
(* C18 *)

\* the matches get_all_matches looked up for the finished Solver, before
\* the length filter
LookedUp == get_all_matches(CLUES, solver.maps, solver.difficulty, map_files).matches

\* C18: every integer of every family's matches given to find_overlaps has
\* as many decimal digits as the answer, and every integer of that length
\* that the lookup returned for the answer's map is still among them.
C18_MatchesHaveAnswerLength ==
    Finished =>
        \A attr \in DOMAIN solver.matches :
            /\ \A n \in Range(solver.matches[attr]) : StrLen(n) = StrLen(solver.answer)
            /\ \A n \in Range(LookedUp[attr]) :
                  StrLen(n) = StrLen(solver.answer) => n \in Range(solver.matches[attr])

\* the Solver finished after the filter removed shorter integers from a
\* family's matches and kept several of the answer's length
C18_Witness ==
    /\ Finished
    /\ \E attr \in DOMAIN solver.matches :
          /\ Len(solver.matches[attr]) > 1
          /\ \E n \in Range(LookedUp[attr]) : StrLen(n) < StrLen(solver.answer)

-----------------------------------------------------------------------------
(* C19 *)

\* the positions with a next digit: the adjacent pairs start there
AdjacentPairs(digits) == {i \in DOMAIN digits : (i + 1) \in DOMAIN digits}

\* C19: the order map is (ascending, descending), ascending 1 exactly when
\* every adjacent pair is non-decreasing and descending 1 exactly when every
\* adjacent pair is non-increasing; [2,4,8] gives (1,0), and the map is
\* (1,1) exactly when all digits are equal.
C19_OrderFingerprint ==
    enc.family = "order" =>
        LET d == enc.digits
        IN /\ enc.num_map \in {0, 1} \X {0, 1}
           /\ enc.num_map[1] = 1 <=> \A i \in AdjacentPairs(d) : d[i] <= d[i + 1]
           /\ enc.num_map[2] = 1 <=> \A i \in AdjacentPairs(d) : d[i] >= d[i + 1]
           /\ d = <<2, 4, 8>> => enc.num_map = <<1, 0>>
           /\ enc.num_map = <<1, 1>> <=> \A i \in DOMAIN d : d[i] = d[1]

\* the order map of [2,4,8] was built, and it is (1,0)
C19_Witness ==
    /\ enc.family = "order"
    /\ enc.digits = <<2, 4, 8>>
    /\ enc.num_map = <<1, 0>>

-----------------------------------------------------------------------------
(* C20 *)

\* the sum of the digits at the positions other than i
SumOfOthers(digits, i) ==
    SumSeq(SubSeq(digits, 1, i - 1) \o SubSeq(digits, i + 1, Len(digits)))

\* the class of position i: 1 greater, 0 equal, -1 neither
TotalSumClass(digits, i) ==
    IF digits[i] > SumOfOthers(digits, i) THEN 1
    ELSE IF digits[i] = SumOfOthers(digits, i) THEN 0 ELSE -1

\* C20: the total-sum map holds at each position 1 when the digit exceeds
\* the sum of the other digits, 0 when it equals that sum and -1 otherwise;
\* there is one clue for each position classified greater or equal, with
\* the matching comparison, and none for a position classified neither, so
\* that [1,1,1] gets no clue at all.
C20_TotalSumFingerprintAndClues ==
    enc.family = "total_sum" =>
        LET d == enc.digits
            classified == {i \in DOMAIN d : TotalSumClass(d, i) >= 0}
        IN /\ DOMAIN enc.num_map = DOMAIN d
           /\ \A i \in DOMAIN d : enc.num_map[i] = TotalSumClass(d, i)
           /\ {<<c.args, c.word>> : c \in Range(enc.clues)} =
                 {<<<<i - 1>>, IF TotalSumClass(d, i) = 1 THEN "greater than" ELSE "equal to">> :
                     i \in classified}
           /\ Len(enc.clues) = Cardinality(classified)
           /\ d = <<1, 1, 1>> => enc.clues = <<>>

\* the total-sum map of a digit list with a digit equal to the sum of the
\* others and a digit classified neither was built, with its one clue
C20_Witness ==
    /\ enc.family = "total_sum"
    /\ \E i \in DOMAIN enc.digits : enc.num_map[i] = 0
    /\ \E i \in DOMAIN enc.digits : enc.num_map[i] = -1
    /\ Len(enc.clues) = 1
    /\ enc.clues[1].word = "equal to"

-----------------------------------------------------------------------------
(* C21 *)

\* the integer a run of digits reads as, leading zeros dropped; positions
\* from 1
RECURSIVE RunValue(_, _, _)
RunValue(digits, start, end) ==
    IF end < start THEN 0 ELSE 10 * RunValue(digits, start, end - 1) + digits[end]

\* the runs of at most L digits whose integer satisfies the predicate
QualifyingRuns(digits, attribute, L) ==
    {run \in (DOMAIN digits) \X (DOMAIN digits) :
        /\ run[1] <= run[2]
        /\ run[2] - run[1] + 1 <= L
        /\ prop_func(attribute, RunValue(digits, run[1], run[2]))}

\* the code of a run: the position for one digit, 10 * start + end otherwise
RunCode(run) == IF run[1] = run[2] THEN run[1] ELSE 10 * run[1] + run[2]

-----------------------------------------------------------------------------
(* C22 *)

\* the combining function of a partials family
Combine(attribute, x, y) == IF attribute = "sum" THEN x + y ELSE x * y

\* the pairs (j, k) of positions other than i, j before k, whose digits
\* combine to digit i; positions from 0
PartialPairs(digits, attribute, i) ==
    {pair \in Idx(digits) \X Idx(digits) :
        /\ pair[1] < pair[2]
        /\ pair[1] # i /\ pair[2] # i
        /\ Combine(attribute, digits[pair[1] + 1], digits[pair[2] + 1]) = digits[i + 1]}

\* the order of sorted() on pairs
PairBefore(p, q) == p[1] < q[1] \/ (p[1] = q[1] /\ p[2] < q[2])

\* C22: for each position i, row i of the partials map is the sorted tuple
\* of exactly the pairs (j, k), j < k, j # i, k # i, whose digits' sum or
\* product equals digit i; no pair with i and no pair twice.
C22_PartialsRows ==
    enc.family = "partials" =>
        /\ DOMAIN enc.num_map = DOMAIN enc.digits
        /\ \A i \in Idx(enc.digits) :
              LET row == enc.num_map[i + 1]
              IN /\ Range(row) = PartialPairs(enc.digits, enc.attribute, i)
                 /\ Len(row) = Cardinality(Range(row))
                 /\ \A a \in DOMAIN row : \A b \in DOMAIN row :
                       a < b => PairBefore(row[a], row[b])

\* the product map of [1,2,2,3,6] was built: the row of the 6 holds the
\* pairs (1,3) and (2,3), the row of the 1 none
C22_Witness ==
    /\ enc.family = "partials"
    /\ enc.attribute = "product"
    /\ enc.digits = <<1, 2, 2, 3, 6>>
    /\ enc.num_map = <<<<>>, <<<<0, 2>>>>, <<<<0, 1>>>>, <<>>, <<<<1, 3>>, <<2, 3>>>>>>

-----------------------------------------------------------------------------
(* C23 *)

\* the families whose template has the {limit_msg} placeholder, and the
\* other families with a template
LimitedFamilies == {"prime", "perfect", "fibonacci"}
UnlimitedFamilies == {"multiples", "product", "sum"}

\* the negative-constraint descriptors of the chosen family's list
NegativeCluesOf(key) ==
    {solver.clues[key][i] : i \in NegativeDescriptors(solver.clues[key])}

\* C23: the limit description of a negative-constraint descriptor comes
\* from the family's configured limit for the Solver's difficulty: for
\* prime, perfect and fibonacci "1-digit " with the limit 1 (easy),
\* "1 or 2 digit " with the limit 2 (medium) and empty without a limit
\* (hard); it is never "None"; for multiples, product and sum the
\* descriptor is the same on every difficulty.
C23_LimitDescription ==
    Solved =>
        \A key \in solver.combo : \A c \in NegativeCluesOf(key) :
            LET limit == LimitOf(ConfigOf(key), solver.difficulty)
            IN /\ c.limit_msg # "None"
               /\ key \in LimitedFamilies =>
                     /\ limit = (CASE solver.difficulty = "easy" -> 1
                                   [] solver.difficulty = "medium" -> 2
                                   [] solver.difficulty = "hard" -> None)
                     /\ c.limit_msg = (CASE limit = 1 -> "1-digit "
                                         [] limit = 2 -> "1 or 2 digit "
                                         [] limit = None -> "")
               /\ key \in UnlimitedFamilies =>
                     c = [type |-> "negative", args |-> <<>>,
                          word |-> format_clue_type(key), limit_msg |-> ""]

\* solved on medium with a chosen family of the limit 2, whose descriptor
\* says "1 or 2 digit ", and a chosen family without the placeholder
C23_Witness ==
    /\ Solved
    /\ solver.difficulty = "medium"
    /\ \E key \in solver.combo \cap LimitedFamilies :
          \E c \in NegativeCluesOf(key) : c.limit_msg = "1 or 2 digit "
    /\ \E key \in solver.combo \cap UnlimitedFamilies : NegativeCluesOf(key) # {}

-----------------------------------------------------------------------------
(* C24 *)

\* a pass of the handler's loop generated an answer
AnswerGenerated == attempts' = attempts + 1

\* C24: one submission of the form generates at most 3 answers; an answer
\* is generated only while fewer than 3 were and the Solver of the answer
\* before it, if any, left no final clues: the loop stops at the first
\* answer with final clues.
C24_AtMostThreeAttempts ==
    /\ [](attempts <= 3)
    /\ [][AnswerGenerated =>
             /\ attempts < 3
             /\ attempts > 0 => solver.final_clues = NoneValue]_vars

\* the loop ended at its second answer, the first with final clues
C24_Witness ==
    /\ pc = "after_loop"
    /\ attempts = 2
    /\ solver.final_clues # NoneValue

-----------------------------------------------------------------------------
(* C25 *)

\* the least num_clues among all the solved combinations passed in
LeastNumClues(solved_combos) ==
    Min({solved_combos[combo].num_clues : combo \in DOMAIN solved_combos})

\* C25: the solved combinations given to find_most_fun_clues all have one
\* size, so its filter by size keeps all of them, and the combinations it
\* chooses among are those of the least total clue count among all that
\* were passed in, on easy (sizes scanned downwards) as on the other
\* difficulties (upwards).
C25_SelectionIsOnePass ==
    Solved =>
        LET passed == DOMAIN solver.solved_combos
            most_fun == find_most_fun_clues(solver.solved_combos)
        IN /\ \A c1 \in passed : \A c2 \in passed : Cardinality(c1) = Cardinality(c2)
           /\ {c \in passed : Cardinality(c) = most_fun.combo_size} = passed
           /\ most_fun.funnest_combos =
                 {c \in passed :
                     solver.solved_combos[c].num_clues = LeastNumClues(solver.solved_combos)}
           /\ solver.combo \in most_fun.funnest_combos

\* solved on easy with several solved combinations passed in, not all of
\* the least clue count
C25_Witness ==
    /\ Solved
    /\ solver.difficulty = "easy"
    /\ \E c \in DOMAIN solver.solved_combos :
          solver.solved_combos[c].num_clues > LeastNumClues(solver.solved_combos)

-----------------------------------------------------------------------------
(* C26 *)

\* the clue dicts a Solver can produce for an answer on a difficulty: none
\* when the answer is unsolvable or a lookup raises
CluesProducedFor(answer, difficulty) ==
    {clue_dict(made.final_clues[1]) :
        made \in {made \in SolverResults(NewClueGenerator(answer, difficulty), map_files) :
                     made.final_clues # NoneValue}}

\* C26: whenever the digits handler redirects to the guess page, the clues
\* of the session are clues the Solver produced for the answer of the
\* session on the difficulty of the session, also after a submission whose
\* three answers were all unsolvable while the session still had the clues
\* of an earlier game.
C26_SessionCluesMatchAnswer ==
    pc = "guess" =>
        session.clues \in CluesProducedFor(session.answer, session.difficulty)

-----------------------------------------------------------------------------
(* C27 *)

\* the answer is among the matches of every family
AnswerInEveryMatchSet == \A attr \in DOMAIN solver.matches :
                            solver.answer \in Range(solver.matches[attr])

\* find_overlaps finds no solved combination on the difficulty
UnsolvableOn(difficulty) ==
    DOMAIN find_overlaps(solver.matches, solver.clues, difficulty) = {}

\* C27: when the matches of every family hold the answer, the intersection
\* of a set of families is within the intersection of each of its subsets
\* (checked for the subsets with one family less, which gives the others
\* step by step), so on easy the Solver returns the full set of families or is unsolvable,
\* and for the same matches the search is unsolvable on easy exactly when
\* it is on medium and on hard.
C27_EasyFullSetOrUnsolvable ==
    (Finished /\ AnswerInEveryMatchSet) =>
        LET sets == SetOf(solver.matches)
        IN /\ \A sup \in SUBSET DOMAIN sets : \A attr \in sup :
                 sup # {attr} =>
                     Intersection(sets, sup) \subseteq Intersection(sets, sup \ {attr})
           /\ solver.difficulty = "easy" =>
                 \/ solver.final_clues = NoneValue
                 \/ solver.combo = DOMAIN solver.matches
           /\ UnsolvableOn("easy") <=> UnsolvableOn("medium")
           /\ UnsolvableOn("easy") <=> UnsolvableOn("hard")

\* solved on easy with the answer in every family's matches: the
\* combination returned is the full set of families
C27_Witness ==
    /\ Solved
    /\ AnswerInEveryMatchSet
    /\ solver.difficulty = "easy"
    /\ solver.combo = DOMAIN solver.matches

-----------------------------------------------------------------------------
(* C28 *)

\* the limit the generator computes the fingerprint of a family with
GeneratorLimit(key, difficulty) ==
    LimitOf(GEN_CLUES[CHOOSE i \in DOMAIN GEN_CLUES : GEN_CLUES[i].key = key], difficulty)

\* the table of a family was built with the limit the generator uses
SameLimits(key, difficulty) ==
    LimitOf(ConfigOf(key), difficulty) = GeneratorLimit(key, difficulty)

\* C28: for every family and every answer between 1 and the index's max,
\* when the table of the family was built with the limit the generator uses
\* on the difficulty, the lookup of the family does not miss and the answer
\* is a member of the family's length-filtered match list.
C28_AnswerInOwnMatchSet ==
    (pc \in {"done", "raised"} /\ solver.answer \in 1..IndexMax) =>
        \A key \in Families :
            SameLimits(key, solver.difficulty) =>
                /\ ~LookupMiss(key)
                /\ (\A other \in Families : SameLimits(other, solver.difficulty)) =>
                      solver.raised = "none"
                /\ solver.raised = "none" =>
                      /\ key \in DOMAIN solver.matches
                      /\ solver.answer \in Range(solver.matches[key])

\* the largest indexed answer was resolved on medium, where every limit of
\* the index is the generator's, and is in every match list
C28_Witness ==
    /\ pc = "done"
    /\ solver.answer = IndexMax
    /\ solver.difficulty = "medium"
    /\ \A key \in Families : SameLimits(key, "medium")
    /\ \A key \in Families : solver.answer \in Range(solver.matches[key])

-----------------------------------------------------------------------------
(* C29 *)

\* C29: in every total-sum map at most one position is classified greater
\* (value 1), and when some position is classified greater no position is
\* classified equal (value 0).
C29_OneGreaterExcludesEqual ==
    enc.family = "total_sum" =>
        LET greater == {i \in DOMAIN enc.num_map : enc.num_map[i] = 1}
            equal == {i \in DOMAIN enc.num_map : enc.num_map[i] = 0}
        IN /\ Cardinality(greater) <= 1
           /\ greater # {} => equal = {}

\* the total-sum map of three digits was built with one position greater
\* and every other position neither
C29_Witness ==
    /\ enc.family = "total_sum"
    /\ Len(enc.digits) = MaxLen
    /\ Cardinality({i \in DOMAIN enc.num_map : enc.num_map[i] = 1}) = 1
    /\ \A i \in DOMAIN enc.num_map : enc.num_map[i] \in {1, -1}

-----------------------------------------------------------------------------
(* C30 *)

\* C30: a Solver run changes the generator's clue lists only by appending
\* one negative-constraint string to the list of each family of the chosen
\* combination that has a template; the lists of the other families are
\* unchanged, no list is touched when the answer is unsolvable or the
\* lookup raised, and the num_clues of every solved combination is the
\* count of the lists as the generator made them.
C30_SolverOnlyAppendsNegatives ==
    pc \in {"done", "raised"} =>
        LET before == GeneratedClues(solver.answer, solver.difficulty)
            chosen == IF Solved THEN solver.combo \cap NEGATIVE_CONSTRAINT_CLUES ELSE {}
            RECURSIVE CountBefore(_)
            CountBefore(keys) == IF keys = {} THEN 0
                                 ELSE LET k == CHOOSE k \in keys : TRUE
                                      IN Len(before[k]) + CountBefore(keys \ {k})
        IN /\ DOMAIN clue_gen.clues = DOMAIN before
           /\ solver.clues = clue_gen.clues
           /\ \A key \in DOMAIN before :
                 clue_gen.clues[key] =
                     IF key \in chosen
                     THEN Append(before[key], NegativeClue(key, solver.difficulty))
                     ELSE before[key]
           /\ \A combo \in DOMAIN solver.solved_combos :
                 solver.solved_combos[combo].num_clues = CountBefore(combo)

\* solved with a combination that holds a family with a template, whose
\* list grew by one, and a family without one, beside families outside it
C30_Witness ==
    /\ Solved
    /\ solver.combo \cap NEGATIVE_CONSTRAINT_CLUES # {}
    /\ solver.combo \ NEGATIVE_CONSTRAINT_CLUES # {}
    /\ DOMAIN clue_gen.clues \ solver.combo # {}
    /\ \E key \in solver.combo :
          Len(clue_gen.clues[key]) =
              Len(GeneratedClues(solver.answer, solver.difficulty)[key]) + 1

=============================================================================
